---- MODULE Spec2Model ----
(***************************************************************************)
(* Model of the PilotQA AI command execution engine (PilotQA_AI and its    *)
(* collaborators: text normalisation, page cache, action pipeline).        *)
(*                                                                         *)
(* Strings are sequences of tokens.  A token is either a whole word (a     *)
(* maximal run of letters/digits), or one single non-word character        *)
(* (space, comma, quote, ...).  The regular expressions of the source are  *)
(* kept as regular expressions over tokens and run by a backtracking       *)
(* matcher with JavaScript's priorities (leftmost match, greedy unless     *)
(* marked lazy, alternatives in order).                                    *)
(***************************************************************************)
EXTENDS Integers, Sequences, FiniteSets, TLC

(***************************************************************************)
(* Tokens                                                                  *)
(***************************************************************************)
SP == " "
DQ == "\""
SQ == "'"
Spaces == {SP}
Puncts == {",", ".", ";", ":", "!", DQ, SQ, ")", "#", "/", "=", "["}
Keywords ==
  {"click", "then", "and", "or", "wait", "pause", "sleep", "for", "seconds",
   "second", "reload", "refresh", "the", "page", "clear", "cache", "flush",
   "browser", "type", "enter", "fill", "set", "in", "into", "inside", "on",
   "to", "field", "with", "input", "check", "verify", "ensure", "confirm",
   "assert", "that", "if", "text", "is", "are", "visible", "displayed",
   "being", "shown", "present", "everything", "looks", "good", "correct",
   "ok", "you", "we", "right", "product", "details", "correctly", "not",
   "should", "must", "be", "appearing", "hidden"}
Names == {"Login", "login", "Email", "email", "Foo", "foo", "Bar", "alice"}
Digits == {"2", "3"}
DigitsS == {"2s"}
\* the words of the visibility phrasings in capitals
UpperWords ==
  {"SHOULD", "MUST", "BE", "IS", "NOT", "VISIBLE", "DISPLAYED", "APPEARING", "HIDDEN"}
Words == Keywords \cup Names \cup Digits \cup DigitsS \cup UpperWords
Alphabet == Words \cup Puncts \cup Spaces

\* String.prototype.toLowerCase, on one token (the "i" flag of the regexes)
LowerCase(t) ==
  CASE t = "Login" -> "login"
    [] t = "Email" -> "email"
    [] t = "Foo" -> "foo"
    [] t = "Bar" -> "bar"
    [] t = "SHOULD" -> "should"
    [] t = "MUST" -> "must"
    [] t = "BE" -> "be"
    [] t = "IS" -> "is"
    [] t = "NOT" -> "not"
    [] t = "VISIBLE" -> "visible"
    [] t = "DISPLAYED" -> "displayed"
    [] t = "APPEARING" -> "appearing"
    [] t = "HIDDEN" -> "hidden"
    [] OTHER -> t

RECURSIVE LowerAll(_)
LowerAll(s) == IF s = <<>> THEN <<>> ELSE <<LowerCase(Head(s))>> \o LowerAll(Tail(s))

\* String.prototype.length: the number of characters of a token sequence
RECURSIVE StrLen(_)
StrLen(s) == IF s = <<>> THEN 0 ELSE Len(Head(s)) + StrLen(Tail(s))

IsWord(t) == t \notin Puncts /\ t \notin Spaces

\* No two word tokens are adjacent: the token sequence is the tokenisation
\* of the string it stands for.
Tokenised(s) == \A i \in 1..(Len(s) - 1) : ~(IsWord(s[i]) /\ IsWord(s[i + 1]))

(***************************************************************************)
(* Regular expressions over tokens                                         *)
(***************************************************************************)
Eps == [k |-> "eps"]
T(w) == [k |-> "tok", w |-> w]
C(S) == [k |-> "cls", s |-> S]
Cat(rs) == [k |-> "seq", rs |-> rs]
Alt(rs) == [k |-> "alt", rs |-> rs]
Star(r) == [k |-> "star", r |-> r]
LazyStar(r) == [k |-> "lazy", r |-> r]
Plus(r) == Cat(<<r, Star(r)>>)
LazyPlus(r) == Cat(<<r, LazyStar(r)>>)
Opt(r) == Alt(<<r, Eps>>)
Grp(n, r) == [k |-> "grp", n |-> n, r |-> r]
Look(r) == [k |-> "look", r |-> r]
EOS == [k |-> "eos"]
BOS == [k |-> "bos"]
WB == [k |-> "wb"]
AnyOf(ws) == C(ws)

S1 == Plus(C(Spaces))          \* \s+
S0 == Star(C(Spaces))          \* \s*
\* "a b c": literal words separated by one literal space
RECURSIVE Phrase(_)
Phrase(ws) ==
  IF Len(ws) = 1 THEN <<T(ws[1])>> ELSE <<T(ws[1]), T(SP)>> \o Phrase(Tail(ws))
\* a\s+b\s+c
RECURSIVE PhraseS(_)
PhraseS(ws) ==
  IF Len(ws) = 1 THEN <<T(ws[1])>> ELSE <<T(ws[1]), S1>> \o PhraseS(Tail(ws))

NoCaps == <<<<0, 0>>, <<0, 0>>, <<0, 0>>>>

WordBoundary(s, i) ==
  LET before == i > 1 /\ IsWord(s[i - 1])
      after == i <= Len(s) /\ IsWord(s[i])
  IN before # after

RECURSIVE M(_, _, _, _), MThen(_, _, _, _), MAlt(_, _, _, _), MStar(_, _, _, _, _)
\* all the ways re matches s from position i, best first: <<[p, c], ...>>
\* p the position after the match, c the capture groups
M(re, s, i, caps) ==
  CASE re.k = "eps" -> <<[p |-> i, c |-> caps]>>
    [] re.k = "tok" ->
         IF i <= Len(s) /\ LowerCase(s[i]) = re.w
         THEN <<[p |-> i + 1, c |-> caps]>> ELSE <<>>
    [] re.k = "cls" ->
         IF i <= Len(s) /\ (s[i] \in re.s \/ LowerCase(s[i]) \in re.s)
         THEN <<[p |-> i + 1, c |-> caps]>> ELSE <<>>
    [] re.k = "seq" ->
         IF re.rs = <<>> THEN <<[p |-> i, c |-> caps]>>
         ELSE MThen(M(Head(re.rs), s, i, caps), Tail(re.rs), s, 1)
    [] re.k = "alt" -> MAlt(re.rs, s, i, caps)
    [] re.k = "star" -> MStar(M(re.r, s, i, caps), re, s, i, 1) \o <<[p |-> i, c |-> caps]>>
    [] re.k = "lazy" -> <<[p |-> i, c |-> caps]>> \o MStar(M(re.r, s, i, caps), re, s, i, 1)
    [] re.k = "grp" ->
         LET rs == M(re.r, s, i, caps)
         IN [x \in 1..Len(rs) |->
               [p |-> rs[x].p, c |-> [rs[x].c EXCEPT ![re.n] = <<i, rs[x].p>>]]]
    [] re.k = "look" ->
         IF M(re.r, s, i, caps) # <<>> THEN <<[p |-> i, c |-> caps]>> ELSE <<>>
    [] re.k = "eos" -> IF i = Len(s) + 1 THEN <<[p |-> i, c |-> caps]>> ELSE <<>>
    [] re.k = "bos" -> IF i = 1 THEN <<[p |-> i, c |-> caps]>> ELSE <<>>
    [] re.k = "wb" -> IF WordBoundary(s, i) THEN <<[p |-> i, c |-> caps]>> ELSE <<>>

\* continue each of the matches found with the rest of a sequence
MThen(found, rest, s, x) ==
  IF x > Len(found) THEN <<>>
  ELSE M(Cat(rest), s, found[x].p, found[x].c) \o MThen(found, rest, s, x + 1)

MAlt(rs, s, i, caps) ==
  IF rs = <<>> THEN <<>> ELSE M(Head(rs), s, i, caps) \o MAlt(Tail(rs), s, i, caps)

\* one more iteration of a star from each match found (an empty iteration ends it)
MStar(found, re, s, i, x) ==
  IF x > Len(found) THEN <<>>
  ELSE (IF found[x].p > i THEN M(re, s, found[x].p, found[x].c) ELSE <<>>)
         \o MStar(found, re, s, i, x + 1)

\* RegExp.prototype.exec from position `from`: the leftmost match, or none
RECURSIVE Exec(_, _, _)
\* ms: the matches at `from`; the first one wins, else the search moves on
ExecAt(ms, re, s, from) ==
  IF ms # <<>>
  THEN [found |-> TRUE, start |-> from, end |-> ms[1].p, c |-> ms[1].c]
  ELSE Exec(re, s, from + 1)
Exec(re, s, from) ==
  IF from > Len(s) + 1 THEN [found |-> FALSE]
  ELSE ExecAt(M(re, s, from, NoCaps), re, s, from)

Test(re, s) == Exec(re, s, 1).found

Sub(s, a, b) == SubSeq(s, a, b - 1)      \* s.slice(a, b), positions from 1
Group(s, m, n) == Sub(s, m.c[n][1], m.c[n][2])

\* String.prototype.replace(re, with) without the g flag
\* `with` is a list of [lit, grp]: the literal tokens lit, then capture group grp
\* (0: none)
RECURSIVE Subst(_, _, _)
Subst(with, s, m) ==
  IF with = <<>> THEN <<>>
  ELSE Head(with).lit
         \o (IF Head(with).grp > 0 THEN Group(s, m, Head(with).grp) ELSE <<>>)
         \o Subst(Tail(with), s, m)

Lit(ts) == <<[lit |-> ts, grp |-> 0]>>
Nothing == <<>>

\* s with the match m replaced
Splice(s, m, with) ==
  IF m.found
  THEN Sub(s, 1, m.start) \o Subst(with, s, m) \o Sub(s, m.end, Len(s) + 1)
  ELSE s
ReplaceFirst(re, s, with) == Splice(s, Exec(re, s, 1), with)

\* String.prototype.replace(re, with) with the g flag
RECURSIVE ReplaceAllFrom(_, _, _, _)
\* the replacement spliced in after the match instead of in its place
ReplaceAllKeepingMatch(m, re, s, from, with) ==
  IF ~m.found THEN Sub(s, from, Len(s) + 1)
  ELSE Sub(s, from, m.end)
         \o Subst(with, s, m)
         \o (IF m.end > m.start
             THEN ReplaceAllFrom(re, s, m.end, with)
             ELSE IF m.start <= Len(s)
                  THEN <<s[m.start]>> \o ReplaceAllFrom(re, s, m.start + 1, with)
                  ELSE <<>>)
ReplaceAllAt(m, re, s, from, with) ==
  IF ~m.found THEN Sub(s, from, Len(s) + 1)
  ELSE Sub(s, from, m.start)
         \o Subst(with, s, m)
         \o (IF m.end > m.start
             THEN ReplaceAllFrom(re, s, m.end, with)
             ELSE IF m.start <= Len(s)
                  THEN <<s[m.start]>> \o ReplaceAllFrom(re, s, m.start + 1, with)
                  ELSE <<>>)
ReplaceAllFrom(re, s, from, with) == ReplaceAllAt(Exec(re, s, from), re, s, from, with)
ReplaceAll(re, s, with) == ReplaceAllFrom(re, s, 1, with)

\* String.prototype.replace(literal, ""): the first occurrence of a substring
RECURSIVE IndexOfFrom(_, _, _)
IndexOfFrom(s, sub, from) ==
  IF from + Len(sub) - 1 > Len(s) THEN 0
  ELSE IF SubSeq(s, from, from + Len(sub) - 1) = sub THEN from
  ELSE IndexOfFrom(s, sub, from + 1)
RemoveLiteral(s, sub) ==
  LET at == IndexOfFrom(s, sub, 1)
  IN IF at = 0 THEN s ELSE Sub(s, 1, at) \o Sub(s, at + Len(sub), Len(s) + 1)

\* String.prototype.trim / trimStart
RECURSIVE TrimStart(_)
TrimStart(s) == IF s # <<>> /\ Head(s) \in Spaces THEN TrimStart(Tail(s)) ELSE s
RECURSIVE TrimEnd(_)
TrimEnd(s) ==
  IF s # <<>> /\ s[Len(s)] \in Spaces THEN TrimEnd(SubSeq(s, 1, Len(s) - 1)) ELSE s
Trim(s) == TrimEnd(TrimStart(s))

\* an optional field: None when absent, Some(v) when present
None == <<>>
Some(v) == <<v>>
Truthy(opt) == opt # None /\ opt[1] # <<>>       \* a non-empty string field

(***************************************************************************)
(* Text normalisation                                                      *)
(***************************************************************************)
\* the successive .replace(re, with) calls of one chain, each with the g flag
RECURSIVE ReplaceChain(_, _)
ReplaceChain(steps, s) ==
  IF steps = <<>> THEN s
  ELSE ReplaceChain(Tail(steps), ReplaceAll(Head(steps).re, s, Head(steps).with))

AreVisible == Lit(<<"are", SP, "visible">>)
AreNotVisible == Lit(<<"are", SP, "not", SP, "visible">>)
AssertionPhraseSteps ==
  << [re |-> Cat(PhraseS(<<"should", "be", "visible">>)), with |-> AreVisible],
     [re |-> Cat(PhraseS(<<"must", "be", "visible">>)), with |-> AreVisible],
     [re |-> Cat(<<WB>> \o PhraseS(<<"is", "visible">>) \o <<WB>>),
      with |-> Lit(<<"is", SP, "visible">>)],
     [re |-> Cat(PhraseS(<<"should", "not", "be", "visible">>)), with |-> AreNotVisible],
     [re |-> Cat(PhraseS(<<"must", "not", "be", "visible">>)), with |-> AreNotVisible],
     [re |-> Cat(<<WB>> \o PhraseS(<<"is", "not", "visible">>) \o <<WB>>),
      with |-> Lit(<<"is", SP, "not", SP, "visible">>)],
     [re |-> Cat(<<WB>> \o PhraseS(<<"should", "be", "displayed">>) \o <<WB>>),
      with |-> AreVisible],
     [re |-> Cat(<<WB>> \o PhraseS(<<"should", "not", "be", "displayed">>) \o <<WB>>),
      with |-> AreNotVisible],
     [re |-> Cat(<<WB, AnyOf({"displayed", "appearing"}), WB>>),
      with |-> Lit(<<"visible">>)],
     [re |-> Cat(<<WB, T("hidden"), WB>>), with |-> Lit(<<"not", SP, "visible">>)] >>

\* a chain without its last replacement
normalizeAssertionPhrasesKeepingHidden(raw) ==
  ReplaceChain(SubSeq(AssertionPhraseSteps, 1, Len(AssertionPhraseSteps) - 1), raw)

normalizeAssertionPhrases(raw) == ReplaceChain(AssertionPhraseSteps, raw)

OptW(w) == Opt(Cat(<<T(w), T(SP)>>))     \* (w )?
VAGUE_ENDING_PATTERNS ==
  << Cat(<<T("check"), T(SP), T("if"), T(SP), OptW("the"), T("page"), T(SP),
           OptW("is"), OptW("being"), T("displayed"),
           Opt(Cat(<<T(SP), T("correctly")>>))>>),
     Cat(<<T("verify"), T(SP), OptW("that"), OptW("the"), T("page"), T(SP),
           OptW("is"), OptW("being"), T("displayed"),
           Opt(Cat(<<T(SP), T("correctly")>>))>>),
     Cat(<<T("ensure"), T(SP), OptW("the"), T("page"), T(SP), OptW("is"),
           T("displayed"), Opt(Cat(<<T(SP), T("correctly")>>))>>),
     Cat(<<T("verify"), T(SP), OptW("that"), T("everything"), T(SP), T("looks"),
           T(SP), AnyOf({"good", "correct"})>>),
     Cat(<<T("check"), T(SP), OptW("the"), T("page"),
           Opt(Cat(<<T(SP), T("is"), T(SP), AnyOf({"ok", "correct"})>>))>>),
     Cat(Phrase(<<"verify", "page">>)),
     Cat(<<T("confirm"), T(SP), AnyOf({"you", "we"}), T(SP), T("are"), T(SP),
           T("on"), T(SP), OptW("the"), AnyOf({"right", "correct"}), T(SP),
           T("page")>>),
     Cat(<<T("verify"), T(SP), T("product"), T(SP), AnyOf({"page", "details"}),
           T(SP), OptW("is"), T("displayed")>>) >>

\* [\s"'.!,;:]
VagueTailClass == Spaces \cup {DQ, SQ, ".", "!", ",", ";", ":"}
Quotes == {DQ, SQ}

RECURSIVE StripVagueLoop(_, _)
StripVagueLoop(pats, out) ==
  IF pats = <<>> THEN out
  ELSE LET replaced == Trim(ReplaceFirst(Cat(<<Head(pats), Star(C(VagueTailClass)), EOS>>),
                                         out, Nothing))
       IN \* a pattern that does not match leaves a trimmed `out` as it is
          IF replaced = out
          THEN StripVagueLoop(Tail(pats), out)
          ELSE StripVagueLoop(Tail(pats), replaced)

stripVague(command) ==
  IF command = <<>> THEN <<>>
  ELSE LET out == StripVagueLoop(VAGUE_ENDING_PATTERNS, Trim(command))
           dq == ReplaceAll(Cat(<<C(Quotes), Plus(C(Quotes))>>), out, Lit(<<DQ>>))
       IN ReplaceFirst(Cat(<<BOS, Plus(C(Spaces \cup {DQ, SQ, ".", ",", ";", ":"})), EOS>>),
                       dq, Nothing)

VISIBILITY_VERBS == {"check", "verify", "ensure", "confirm", "assert"}
\* visible | displayed | being displayed | shown | present, in this order
VISIBILITY_STATES ==
  Alt(<<T("visible"), T("displayed"), Cat(Phrase(<<"being", "displayed">>)),
        T("shown"), T("present")>>)

\* escapeRegExp(sel): the selector as a literal, matched with the i flag
RECURSIVE Literal(_)
Literal(ts) ==
  IF ts = <<>> THEN <<>> ELSE <<T(LowerCase(Head(ts)))>> \o Literal(Tail(ts))

IsAre == AnyOf({"is", "are"})
VerbPrefix ==
  <<WB, AnyOf(VISIBILITY_VERBS), S1,
    Opt(Alt(<<Cat(<<T("that"), S1>>), Cat(<<T("if"), S1>>)>>)),
    Opt(Cat(<<T("the"), S1>>)), Opt(Cat(<<T("text"), S1>>))>>
\* [A-Za-z0-9 "'_\-,]
TailListClass == Words \cup {SP, DQ, SQ, ","}
VisibilityTail ==
  Cat(VerbPrefix \o <<Grp(1, Star(C(TailListClass))), S1, IsAre, S1,
                      VISIBILITY_STATES, S0, EOS>>)
Connector == Alt(<<T(","), Cat(<<WB, T("and"), WB>>)>>)
EdgePunct == {".", ",", ";", ":"}

\* ["']?<selector>["']?
QuotedSelector(sel) == Cat(<<Opt(C(Quotes))>> \o Literal(sel) \o <<Opt(C(Quotes))>>)

\* 1) direct mention of the item within lists
\* 2) "<selector> is/are visible/displayed"
\* 3) "check/verify ... <selector> ... is/are visible"
RemoveMentions(command, qSel) ==
  ReplaceFirst(
    Cat(VerbPrefix \o <<qSel, S1, IsAre, S1, VISIBILITY_STATES, S0,
                        Star(C({".", DQ, SQ, ")", "!", ";", ","}))>>),
    ReplaceFirst(
      Cat(<<qSel, S1, IsAre, S1, VISIBILITY_STATES,
            Look(Alt(<<C(Spaces \cup {DQ, SQ, ".", "!", ",", ";", ":", ")"}), EOS>>))>>),
      ReplaceFirst(
        Cat(<<S0, Opt(Alt(<<Cat(<<T(","), S0>>), Cat(<<S1, T("and"), S1>>)>>)),
              qSel,
              Look(Cat(<<S0, Alt(<<T(","), T("and"), T(")"), T("."), T(";"), EOS>>)>>))>>),
        command, Nothing),
      Nothing),
    Nothing)

\* the items left in the list of the tail matched by m
TailItems(out, m) ==
  Trim(ReplaceAll(Cat(<<WB, AnyOf({"and", "or"}), WB>>),
                  ReplaceAll(C(Spaces \cup {DQ, SQ, ",", "."}), Group(out, m, 1), Nothing),
                  Nothing))

\* 4) only the tail "check/verify ... are visible" remains without items
RemoveTailAt(out, m) ==
  IF m.found /\ TailItems(out, m) = <<>>
  THEN Trim(ReplaceFirst(VisibilityTail, out, Nothing)) ELSE out
RemoveEmptyTail(out) == RemoveTailAt(out, Exec(VisibilityTail, out, 1))

\* cleanup leftover connectors and punctuation
CleanupConnectors(out) ==
  Trim(ReplaceAll(
         Alt(<<Cat(<<BOS, S0, Plus(C(EdgePunct)), S0>>),
               Cat(<<S0, Plus(C(EdgePunct)), S0, EOS>>)>>),
         ReplaceAll(
           Cat(<<C(Spaces), Plus(C(Spaces))>>),
           ReplaceAll(
             Cat(<<S0, T(","), S0, T(",")>>),
             ReplaceAll(Cat(<<S0, Grp(1, Connector), S0, Grp(2, Connector), S0>>), out,
                        <<[lit |-> <<SP>>, grp |-> 2], [lit |-> <<SP>>, grp |-> 0]>>),
             Lit(<<",">>)),
           Lit(<<SP>>)),
         Nothing))

removeVisibilityMention(command, selector) ==
  IF command = <<>> \/ selector = <<>> THEN command
  ELSE CleanupConnectors(
         RemoveEmptyTail(RemoveMentions(command, QuotedSelector(Trim(selector)))))

\* (;|\n|\.|,|\bthen\b|\band\b)
ClauseDelimiter ==
  Alt(<<T(";"), T("."), T(","), Cat(<<WB, T("then"), WB>>), Cat(<<WB, T("and"), WB>>)>>)

\* what follows the delimiter matched by m, lightly normalised
RestAfter(command, m) ==
  IF ~m.found THEN <<>>
  ELSE Trim(ReplaceFirst(
              Cat(<<BOS, Plus(C(Spaces \cup {DQ, SQ, ".", ",", ";", ":"}))>>),
              ReplaceAll(
                Cat(<<T(SQ), Plus(T(SQ))>>),
                ReplaceAll(Cat(<<T(DQ), Plus(T(DQ))>>),
                           TrimStart(Sub(command, m.end, Len(command) + 1)),
                           Lit(<<DQ>>)),
                Lit(<<SQ>>)),
              Nothing))

\* fallback: consume until next delimiter (; . , then and \n)
ConsumeClause(command) == RestAfter(command, Exec(ClauseDelimiter, command, 1))

\* the result of removeVisibilityMention returned without the `after !== command` test
MentionAlways(command, after) == after
\* the mention removed if that changed the command, else the fallback
MentionOrClause(command, after) ==
  IF after # command THEN after ELSE ConsumeClause(command)

consumeProcessed(command, action) ==
  IF command = <<>> THEN <<>>
  ELSE IF action.action \in {"assertVisible", "assertNotVisible"}
            /\ action.selectorType = "text" /\ Truthy(action.selector)
  THEN MentionOrClause(command, removeVisibilityMention(command, action.selector[1]))
  ELSE ConsumeClause(command)

(***************************************************************************)
(* Inline wait / reload / cache-clear recognition                          *)
(***************************************************************************)
SecondsWord == AnyOf({"second", "seconds"})      \* seconds?
WaitVerb == AnyOf({"wait", "pause", "sleep"})
timeP ==
  << Cat(<<WaitVerb, S1, Opt(Cat(<<T("for"), S1>>)), Grp(1, Plus(C(Digits))), S1,
           SecondsWord>>),
     Cat(<<T("wait"), S1, Grp(1, C(DigitsS))>>) >>
reloadP ==
  << Cat(<<AnyOf({"reload", "refresh"}), S1, Opt(Cat(<<T("the"), S1>>)), T("page")>>),
     Cat(<<T("page"), S1, AnyOf({"reload", "refresh"})>>) >>
cacheP ==
  << Cat(<<T("clear"), S1, Opt(Cat(<<T("the"), S1>>)), T("cache")>>),
     Cat(PhraseS(<<"cache", "clear">>)),
     Cat(PhraseS(<<"clear", "browser", "cache">>)),
     Cat(PhraseS(<<"flush", "cache">>)) >>

\* parseInt of a run of digits (of "2s": the digits before the s)
ParseInt(ts) ==
  CASE ts = <<"2">> -> 2
    [] ts = <<"3">> -> 3
    [] ts = <<"2s">> -> 2
    [] OTHER -> 0

AnyTest(ps, cmd) == \E x \in 1..Len(ps) : Test(ps[x], cmd)

\* the branch tryExecuteWaitCommand takes on cmd, and the seconds of a wait
WaitCommandKind(cmd) ==
  IF AnyTest(cacheP, cmd) THEN "cache"
  ELSE IF AnyTest(reloadP, cmd) THEN "reload"
  ELSE IF AnyTest(timeP, cmd) THEN "wait"
  ELSE "none"
WaitCommandSeconds(cmd) ==
  LET m1 == Exec(timeP[1], cmd, 1)
      m2 == Exec(timeP[2], cmd, 1)
  IN IF m1.found THEN ParseInt(Group(cmd, m1, 1))
     ELSE IF m2.found THEN ParseInt(Group(cmd, m2, 1))
     ELSE 0

InlineStripSteps ==
  << [re |-> Alt(<<Cat(<<T("clear"), S1, Opt(Cat(<<T("the"), S1>>)), T("cache")>>),
                   Cat(PhraseS(<<"cache", "clear">>)),
                   Cat(PhraseS(<<"clear", "browser", "cache">>)),
                   Cat(PhraseS(<<"flush", "cache">>))>>),
      with |-> Nothing],
     [re |-> Cat(<<AnyOf({"reload", "refresh"}), S1, Opt(Cat(<<T("the"), S1>>)),
                   T("page")>>),
      with |-> Nothing],
     [re |-> Cat(<<WaitVerb, S1, Opt(Cat(<<T("for"), S1>>)), Plus(C(Digits)), S1,
                   SecondsWord>>),
      with |-> Nothing],
     [re |-> Cat(<<T("wait"), S1, C(DigitsS)>>), with |-> Nothing] >>

\* the phrases stripped from the instruction after tryExecuteWaitCommand matched
StripInlinePhrases(cmd) == Trim(ReplaceChain(InlineStripSteps, cmd))

(***************************************************************************)
(* Pre-parsed inline TYPE actions                                          *)
(***************************************************************************)
NotDQ == Alphabet \ {DQ}                  \* [^"]
NotDQComma == Alphabet \ {DQ, ","}        \* [^",]
FieldClass == Words \cup {SP}             \* [A-Za-z0-9 _\-]
inlineTypeRegexes ==
  << Cat(<<AnyOf({"type", "enter", "fill"}), S1, T(DQ), Grp(1, Plus(C(NotDQ))), T(DQ),
           S1, AnyOf({"in", "into", "inside", "on", "to"}), S1,
           Opt(Cat(<<T("the"), S1>>)), Opt(Cat(<<T("field"), S1>>)),
           Opt(C(Quotes)), Grp(2, Plus(C(FieldClass))), Opt(C(Quotes))>>),
     Cat(<<T("set"), S1, Opt(Cat(<<T("the"), S1>>)), Grp(1, Plus(C(FieldClass))), S1,
           Opt(Cat(<<T("field"), S1>>)), T("to"), S1, T(DQ), Grp(2, Plus(C(NotDQ))),
           T(DQ)>>),
     Cat(<<T("fill"), S1, Opt(Cat(<<T("the"), S1>>)), Grp(1, Plus(C(FieldClass))), S1,
           Opt(Cat(<<T("field"), S1>>)), T("with"), S1, Opt(T(DQ)),
           Grp(2, LazyPlus(C(NotDQComma))), Opt(T(DQ)),
           Grp(3, Alt(<<C(Spaces), T(","), EOS>>))>>) >>

CleanFieldName(f) ==
  Trim(ReplaceFirst(Cat(<<S1, T("and"), EOS>>),
         ReplaceFirst(Cat(<<S1, T("input"), S1, T("and"), EOS>>),
           ReplaceFirst(Cat(<<S1, T("input"), EOS>>), f, Nothing),
           Nothing),
         Nothing))

\* the matches of one regex (g flag, exec loop), as pre-parsed type actions
RECURSIVE PreParseWith(_, _, _)
\* regex 2 ("set <field> to <text>") captures the field first; in the others the
\* first group is taken as the text
PreParseAt(m, n, cmd) ==
  IF ~m.found THEN <<>>
  ELSE <<[action |-> "type",
          selector |-> CleanFieldName(Trim(Group(cmd, m, IF n \in {1, 3} THEN 2 ELSE 1))),
          selectorType |-> "text",
          text |-> Trim(Group(cmd, m, IF n \in {1, 3} THEN 1 ELSE 2)),
          originalSnippet |-> Sub(cmd, m.start, m.end)]>>
         \o PreParseWith(n, cmd, m.end)
PreParseWith(n, cmd, from) == PreParseAt(Exec(inlineTypeRegexes[n], cmd, from), n, cmd)

PreParseTypes(cmd) ==
  PreParseWith(1, cmd, 1) \o PreParseWith(2, cmd, 1) \o PreParseWith(3, cmd, 1)

(***************************************************************************)
(* Action pipeline: schema, normalizers, validators, mappers               *)
(***************************************************************************)
Urls == {"http://a", "http://b"}
SelectorTypes == {"css", "xpath", "text", "none"}

\* a raw action as parsed from the model's JSON; extra: it has an unknown key
RawAction(a) ==
  [action |-> a, selector |-> None, selectorType |-> None, timeout |-> None,
   duration |-> None, text |-> None, url |-> None, extra |-> FALSE]

\* ActionSchemaBase.safeParse on one element
SchemaAccepts(a) ==
  /\ a.action # ""
  /\ (a.selector # None => Trim(a.selector[1]) # <<>>)
  /\ (a.selectorType # None => a.selectorType[1] \in SelectorTypes)
  /\ (a.timeout # None => a.timeout[1] > 0)
  /\ (a.duration # None => a.duration[1] > 0)
  /\ (a.url # None => a.url[1] \in Urls)
  /\ ~a.extra

\* z.string().trim(): the parsed selector is the trimmed one
SchemaOutput(a) ==
  IF a.selector # None THEN [a EXCEPT !.selector = Some(Trim(a.selector[1]))] ELSE a

\* an inference without the test for the empty selector
coerceSelectorTypeNeverNone(a) ==
  IF a.selectorType # None THEN a
  ELSE LET s == IF a.selector # None THEN a.selector[1] ELSE <<>>
       IN [a EXCEPT !.selectorType =
             Some(IF Test(Cat(<<BOS, Alt(<<Cat(<<T("xpath"), T("=")>>),
                                          Cat(<<T("/"), T("/")>>)>>)>>), s)
                  THEN "xpath"
                  ELSE IF Test(Cat(<<BOS, C({".", "#", "[", ":"})>>), s) THEN "css"
                  ELSE "text")]

\* coerceSelectorType: the transform of ActionSchema
coerceSelectorType(a) ==
  IF a.selectorType # None THEN a
  ELSE LET s == IF a.selector # None THEN a.selector[1] ELSE <<>>
       IN [a EXCEPT !.selectorType =
             Some(IF Test(Cat(<<BOS, Alt(<<Cat(<<T("xpath"), T("=")>>),
                                          Cat(<<T("/"), T("/")>>)>>)>>), s)
                  THEN "xpath"
                  ELSE IF Test(Cat(<<BOS, C({".", "#", "[", ":"})>>), s) THEN "css"
                  ELSE IF s = <<>> THEN "none"
                  ELSE "text")]

ActionSchema(a) == coerceSelectorType(SchemaOutput(a))

\* responses of the model: kind "text" (not JSON), "object" (JSON, not an array),
\* "array" (a JSON array of objects)
ParseOk(response) ==
  /\ response.kind = "array"
  /\ \A x \in 1..Len(response.actions) : SchemaAccepts(response.actions[x])
ParsedActions(response) ==
  [x \in 1..Len(response.actions) |-> ActionSchema(response.actions[x])]

\* typedByParser: the list of [key, text] entries in insertion order
TypedHas(typed, key) == \E x \in 1..Len(typed) : typed[x].key = key
TypedGet(typed, key) ==
  LET last == CHOOSE x \in 1..Len(typed) :
                typed[x].key = key /\ \A y \in (x + 1)..Len(typed) : typed[y].key # key
  IN typed[last].text

\* Inject pre-parser text if missing
InjectText(a, typed) ==
  IF a.action = "type" /\ (a.text = None \/ Trim(a.text[1]) = <<>>) /\ Truthy(a.selector)
       /\ TypedHas(typed, LowerAll(a.selector[1]))
  THEN [a EXCEPT !.text = Some(TypedGet(typed, LowerAll(a.selector[1])))]
  ELSE a

\* Remove duplicates of type already executed by the parser
IsParserDuplicate(a, typed) ==
  a.action = "type" /\ Truthy(a.selector) /\ TypedHas(typed, LowerAll(a.selector[1]))

\* Discard 'type' without text
HasNoText(a) == a.action = "type" /\ ~Truthy(a.text)

RECURSIVE SelectSeqBy(_, _, _)
SelectSeqBy(s, typed, x) ==
  IF x > Len(s) THEN <<>>
  ELSE (IF IsParserDuplicate(s[x], typed) \/ HasNoText(s[x]) THEN <<>> ELSE <<s[x]>>)
         \o SelectSeqBy(s, typed, x + 1)

FilterParsed(parsed, typed) ==
  SelectSeqBy([x \in 1..Len(parsed) |-> InjectText(parsed[x], typed)], typed, 1)

\* raw.action.toLowerCase().replace(/\s+/g, "")
ActionKey(a) ==
  CASE a = "Press" -> "press"
    [] a = "clearCache" -> "clearcache"
    [] a = "assertVisible" -> "assertvisible"
    [] a = "assertNotVisible" -> "assertnotvisible"
    [] a = "waitForVisible" -> "waitforvisible"
    [] a = "waitForHidden" -> "waitforhidden"
    [] a = "waitForNavigation" -> "waitfornavigation"
    [] a = "waitForURL" -> "waitforurl"
    [] OTHER -> a

AliasDomain ==
  {"press", "tap", "submit", "checkvisibility", "verifyvisible", "verifyinvisible",
   "hidecheck", "reloadpage", "refresh", "clearcache", "waitvisible", "waithidden"}
AliasMap(k) ==
  CASE k \in {"press", "tap", "submit"} -> "click"
    [] k \in {"checkvisibility", "verifyvisible"} -> "assertVisible"
    [] k \in {"verifyinvisible", "hidecheck"} -> "assertNotVisible"
    [] k \in {"reloadpage", "refresh"} -> "reload"
    [] k = "clearcache" -> "clearCache"
    [] k = "waitvisible" -> "waitForVisible"
    [] k = "waithidden" -> "waitForHidden"

noSelector == {"wait", "reload", "clearCache", "waitForNavigation", "waitForURL"}

\* actionNormalizers[0]: action-name aliases
NormalizeAlias(raw) ==
  IF raw.action # "" /\ ActionKey(raw.action) \in AliasDomain
  THEN [raw EXCEPT !.action = AliasMap(ActionKey(raw.action))] ELSE raw

\* actionNormalizers[1]: default selector kind
NormalizeSelectorType(raw) ==
  IF raw.selectorType = None
  THEN [raw EXCEPT !.selectorType =
          Some(IF ~Truthy(raw.selector) \/ raw.action \in noSelector
               THEN "none" ELSE "text")]
  ELSE raw

Normalize(raw) == NormalizeSelectorType(NormalizeAlias(raw))

\* actionValidators[0] and [2]: the error thrown, or "" when none
ValidatorError(act) ==
  IF act.action \notin noSelector /\ ~Truthy(act.selector)
  THEN "Action missing selector"
  ELSE IF act.action = "type" /\ (~Truthy(act.text) \/ Trim(act.text[1]) = <<>>)
  THEN "Action type missing text"
  ELSE ""

\* a validator that replaces only the durations that are present
ValidateDurationPresentOnly(act) ==
  IF act.action = "wait" /\ act.duration # None /\ act.duration[1] <= 0
  THEN [act EXCEPT !.duration = Some(1)] ELSE act

\* actionValidators[1]: a wait without a positive duration gets duration 1
ValidateDuration(act) ==
  IF act.action = "wait" /\ (act.duration = None \/ act.duration[1] <= 0)
  THEN [act EXCEPT !.duration = Some(1)] ELSE act

\* baseMapper
baseMapper(raw) ==
  [action |-> raw.action, selector |-> raw.selector,
   selectorType |-> raw.selectorType[1], timeout |-> raw.timeout,
   duration |-> raw.duration, text |-> raw.text, url |-> raw.url,
   normalizedAction |-> raw.action]

\* Normalizers -> Validators -> Mappers over the parsed list:
\* [error: "" or the first error thrown, actions: finalActions]
RECURSIVE RunChains(_, _)
RunChains(parsed, x) ==
  IF x > Len(parsed) THEN [error |-> "", actions |-> <<>>]
  ELSE LET cur == Normalize(parsed[x])
           err == ValidatorError(cur)
           rest == RunChains(parsed, x + 1)
       IN IF err # "" THEN [error |-> err, actions |-> <<>>]
          ELSE IF rest.error # "" THEN rest
          ELSE [error |-> "",
                actions |-> <<baseMapper(ValidateDuration(cur))>> \o rest.actions]

\* a pipeline that leaves out the elements the schema rejects
PipelineSkippingInvalid(response, typed) ==
  IF response.kind # "array"
  THEN [error |-> "LLM output is not a valid JSON actions array", actions |-> <<>>]
  ELSE LET valid == SelectSeq(response.actions, SchemaAccepts)
           out == RunChains(FilterParsed([x \in 1..Len(valid) |-> ActionSchema(valid[x])],
                                         typed), 1)
       IN IF out.error # "" THEN out
          ELSE IF out.actions = <<>>
          THEN [error |-> "No actions parsed from LLM response.", actions |-> <<>>]
          ELSE out

\* a pipeline that hands an empty executable list to the for loop
PipelineAllowingEmpty(response, typed) ==
  IF ~ParseOk(response)
  THEN [error |-> "LLM output is not a valid JSON actions array", actions |-> <<>>]
  ELSE LET out == RunChains(FilterParsed(ParsedActions(response), typed), 1)
       IN IF out.error # "" THEN out
          ELSE IF out.actions = <<>>
          THEN [error |-> "", actions |-> <<[action |-> "reload", selector |-> None,
                    selectorType |-> "none", timeout |-> None, duration |-> None,
                    text |-> None, url |-> None, normalizedAction |-> "reload"]>>]
          ELSE out

\* the whole of parse + validate + filters + chains on one model response
Pipeline(response, typed) ==
  IF ~ParseOk(response)
  THEN [error |-> "LLM output is not a valid JSON actions array", actions |-> <<>>]
  ELSE LET out == RunChains(FilterParsed(ParsedActions(response), typed), 1)
       IN IF out.error # "" THEN out
          ELSE IF out.actions = <<>>
          THEN [error |-> "No actions parsed from LLM response.", actions |-> <<>>]
          ELSE out

(***************************************************************************)
(* LLM gateway                                                             *)
(***************************************************************************)
\* the candidates of availableLLMs, in the order it pushes them
ModelList ==
  << [provider |-> "gemini", model |-> "gemini-2.5-flash"],
     [provider |-> "gemini", model |-> "gemini-2.0-flash"],
     [provider |-> "gemini", model |-> "gemini-1.5-flash"],
     [provider |-> "openai", model |-> "gpt-4o-mini"],
     [provider |-> "anthropic", model |-> "claude-3-haiku-20240307"] >>

\* env: the providers whose API key is set in process.env
hasKeyFor(env, provider) == provider \in env

RECURSIVE availableLLMsFrom(_, _)
availableLLMsFrom(env, x) ==
  IF x > Len(ModelList) THEN <<>>
  ELSE (IF hasKeyFor(env, ModelList[x].provider) THEN <<ModelList[x]>> ELSE <<>>)
         \o availableLLMsFrom(env, x + 1)
availableLLMs(env) == availableLLMsFrom(env, 1)

\* what instance.invoke may throw
InvokeErrors == {"timeout", "unauthorized"}

\* no call of invokeLLMWithFallback is running.  tried and skipped record what the
\* loop did with each candidate: [x, ok] for an invocation, x for a skip
IdleGateway(env) ==
  [pc |-> "idle", env |-> env, models |-> <<>>, x |-> 0, lastError |-> None,
   result |-> None, raised |-> None, tried |-> <<>>, skipped |-> {}]

(***************************************************************************)
(* Page cache and navigation state                                         *)
(***************************************************************************)
CACHE_DURATION == 5000

\* the module-level cache object as first loaded
EmptyCache == [htmlContent |-> None, htmlTimestamp |-> 0, currentUrl |-> ""]

\* an invalidation that leaves an excerpt in the cache
InvalidatedKeepingExcerpt(url) ==
  [htmlContent |-> Some([page |-> url]), htmlTimestamp |-> 0, currentUrl |-> url]

\* cache.htmlContent = null; cache.htmlTimestamp = 0; cache.currentUrl = url
InvalidatedCache(url) == [htmlContent |-> None, htmlTimestamp |-> 0, currentUrl |-> url]

\* a detector that invalidates the cache whether or not the run uses it
detectNavigationChangeInvalidating(url, state, c, usingCache) ==
  IF url # state.currentPageUrl
  THEN [nav |-> TRUE,
        state |-> [currentPageUrl |-> url, navigationCount |-> state.navigationCount + 1],
        cache |-> InvalidatedCache(url)]
  ELSE [nav |-> FALSE, state |-> state, cache |-> c]

\* detectNavigationChange: [nav, state, cache]
detectNavigationChange(url, state, c, usingCache) ==
  IF url # state.currentPageUrl
  THEN [nav |-> TRUE,
        state |-> [currentPageUrl |-> url, navigationCount |-> state.navigationCount + 1],
        cache |-> IF usingCache THEN InvalidatedCache(url) ELSE c]
  ELSE [nav |-> FALSE, state |-> state, cache |-> c]

\* the excerpt of the page shown at url
Summarize(url) == [page |-> url]

\* getOptimizedHTML without the urlChanged test
getOptimizedHTMLByAgeOnly(url, time, c, usingCache) ==
  IF usingCache /\ c.htmlContent # None /\ time - c.htmlTimestamp < CACHE_DURATION
  THEN [html |-> c.htmlContent[1], cache |-> c, cached |-> TRUE]
  ELSE [html |-> Summarize(url),
        cache |-> IF usingCache
                  THEN [htmlContent |-> Some(Summarize(url)), htmlTimestamp |-> time,
                        currentUrl |-> url]
                  ELSE c,
        cached |-> FALSE]

\* getOptimizedHTML: [html, cache, cached]
getOptimizedHTML(url, time, c, usingCache) ==
  LET urlChanged == c.currentUrl # url
  IN IF usingCache /\ ~urlChanged /\ c.htmlContent # None
          /\ time - c.htmlTimestamp < CACHE_DURATION
     THEN [html |-> c.htmlContent[1], cache |-> c, cached |-> TRUE]
     ELSE [html |-> Summarize(url),
           cache |-> IF usingCache
                     THEN [htmlContent |-> Some(Summarize(url)), htmlTimestamp |-> time,
                           currentUrl |-> url]
                     ELSE c,
           cached |-> FALSE]

(***************************************************************************)
(* The run: PilotQA_AI(page, command, maxRetries, containerSelector,       *)
(* useCache, options)                                                      *)
(***************************************************************************)
VARIABLES
  command,               \* the caller's instruction
  maxRetries,
  useCache,
  options,               \* [softAssertNoLocator, safeClearCookies]
  pc,                    \* where the run is
  remainingCommand,
  retryCount,
  lastError,
  preParsedTypeActions,
  typedByParser,
  stepLogs,
  navState,
  finalActions,
  actionIndex,           \* the position of the for loop over finalActions
  navigationTriggered,
  error,                 \* the exception on its way to the catch block
  failure,               \* the error the run raised: None or Some([attempts, message])
  pageUrl,               \* page.url()
  now,                   \* Date.now()
  cache,                 \* the module-level cache object
  htmlContent,           \* the excerpt of the current round: [html, cached]
  llmCalls,              \* invocations of invokeLLMWithFallback so far
  rounds,                \* rounds started (entries of the try block)
  failedRounds,          \* rounds ended in the catch block since the last good round
  roundStart,            \* remainingCommand when the current round entered the try block
  locator,               \* what resolveLocator returned for the action being dispatched
  pause,                 \* the milliseconds the wait being executed pauses for
  cookies,               \* the browser context still has the cookies it started with
  jsonResponse,          \* what the model answered in this round, if it has
  arg,                   \* the argument of a function applied on its own
  ret,                   \* its result
  gateway,               \* a call of invokeLLMWithFallback
  license                \* the token and quota gate of the run

vars ==
  <<command, maxRetries, useCache, options, pc, remainingCommand, retryCount, lastError,
    preParsedTypeActions, typedByParser, stepLogs, navState, finalActions,
    actionIndex, navigationTriggered, error, failure, pageUrl, now, cache, htmlContent,
    llmCalls, rounds, failedRounds, roundStart, gateway, license, locator, pause,
    cookies, jsonResponse, arg, ret>>

\* bounds of the model
MaxRetriesBound == 2
MaxTicks == 2
TickMs == 2500
StartTime == 100000

Commands ==
  { <<"click", SP, "Login", SP, "then", SP, "wait", SP, "2", SP, "seconds">>,
    <<"type", SP, DQ, "alice", DQ, SP, "into", SP, DQ, "Email", DQ>>,
    <<"wait", SP, "2", SP, "seconds">>,
    <<"reload", SP, "the", SP, "page">>,
    <<"click", SP, "Login">>,
    <<"click", SP, "Login", ",", SP, "verify", SP, "page">>,
    <<"check", SP, "Foo", SP, "is", SP, "visible">>,
    <<"verify", SP, "page">>,
    <<"Foo", ",", ",", "Bar">>,
    <<"clear", SP, "the", SP, "cache">>,
    <<"reload", SP, "the", SP, "page", SP, "then", SP, "wait", SP, "2", SP, "seconds">>,
    <<>> }

\* the instructions of several clauses are run without the page cache and with
\* hard assertions
LongCommands == {c \in Commands : Len(c) = 4}

Click(sel) == [RawAction("click") EXCEPT !.selector = Some(sel)]
\* the gate the engine model starts after: a valid token, a plan with executions left
Licensed ==
  [token |-> "valid", usedToday |-> 0, runningTokenless |-> FALSE, requested |-> FALSE,
   quota |-> "read", limit |-> None, usage |-> 0, logged |-> 0]

\* what the model may answer
Responses ==
  { [kind |-> "text", actions |-> <<>>],
    [kind |-> "array", actions |-> <<>>],
    [kind |-> "array", actions |-> <<Click(<<"Login">>)>>],
    [kind |-> "array",
     actions |-> <<Click(<<"Login">>), [RawAction("wait") EXCEPT !.duration = Some(2)]>>],
    [kind |-> "array",
     actions |-> <<[Click(<<"Login">>) EXCEPT !.selectorType = Some("none")]>>],
    [kind |-> "array", actions |-> <<RawAction("click")>>],
    [kind |-> "array",
     actions |-> <<[RawAction("type") EXCEPT !.selector = Some(<<"Email">>),
                                             !.text = Some(<<"alice">>)]>>],
    [kind |-> "array",
     actions |-> <<[RawAction("type") EXCEPT !.selector = Some(<<"login">>),
                                             !.selectorType = Some("text"),
                                             !.text = Some(<<SP>>)]>>],
    [kind |-> "array",
     actions |-> <<[RawAction("assertVisible") EXCEPT !.selector = Some(<<"Foo">>)],
                   Click(<<"Login">>)>>],
    [kind |-> "array",
     actions |-> <<[RawAction("assertVisible") EXCEPT !.selector = Some(<<"Login">>)]>>],
    [kind |-> "array", actions |-> <<RawAction("reload"), RawAction("clearCache")>>],
    [kind |-> "array", actions |-> <<RawAction("wait")>>],
    [kind |-> "object", actions |-> <<>>],
    [kind |-> "array",
     actions |-> <<Click(<<"Login">>), [RawAction("wait") EXCEPT !.duration = Some(0)]>>],
    [kind |-> "array", actions |-> <<Click(<<"Login">>), RawAction("click")>>],
    [kind |-> "array", actions |-> <<RawAction("waitForNavigation"), Click(<<"Login">>)>>],
    [kind |-> "array",
     actions |-> <<[RawAction("assertNotVisible") EXCEPT !.selector = Some(<<"Foo">>)]>>],
    [kind |-> "array",
     actions |-> <<[RawAction("hover") EXCEPT !.selector = Some(<<"Login">>)]>>] }

HomeUrl == "http://a"

\* the variables declared inside the try block go out of scope with the round
NoHtml == [html |-> Summarize(""), cached |-> FALSE]
RoundLocalsGone ==
  /\ finalActions' = <<>>
  /\ actionIndex' = 0
  /\ navigationTriggered' = FALSE
  /\ htmlContent' = NoHtml
  /\ locator' = "unset"
  /\ pause' = 0
  /\ jsonResponse' = None

Init ==
  /\ arg = None
  /\ ret = None
  /\ command \in Commands
  /\ maxRetries \in 0..MaxRetriesBound
  /\ useCache \in BOOLEAN
  /\ options \in [softAssertNoLocator : BOOLEAN, safeClearCookies : BOOLEAN]
  /\ command \in LongCommands => ~useCache /\ ~options.softAssertNoLocator
  /\ Len(command) = 13 => ~useCache /\ ~options.softAssertNoLocator
  /\ options.safeClearCookies
       => ~useCache /\ ~options.softAssertNoLocator /\ command \notin LongCommands
  /\ pc = "start"
  /\ remainingCommand = <<>>
  /\ retryCount = 0
  /\ lastError = ""
  /\ preParsedTypeActions = <<>>
  /\ typedByParser = <<>>
  /\ stepLogs = <<>>
  /\ navState = [currentPageUrl |-> "", navigationCount |-> 0]
  /\ finalActions = <<>>
  /\ actionIndex = 0
  /\ navigationTriggered = FALSE
  /\ error = ""
  /\ failure = None
  /\ pageUrl = HomeUrl
  /\ now = StartTime
  /\ cache = EmptyCache
  /\ htmlContent = NoHtml
  /\ llmCalls = 0
  /\ rounds = 0
  /\ failedRounds = 0
  /\ roundStart = <<>>
  /\ gateway = IdleGateway({})
  /\ license = Licensed
  /\ locator = "unset"
  /\ pause = 0
  /\ cookies = TRUE
  /\ jsonResponse = None

\* logStep
logStep(logs, entry) ==
  Append(logs, [order |-> Len(logs) + 1, action |-> entry.action,
                selector |-> entry.selector, status |-> entry.status])

\* the start of the run: normalise the command, pre-parse the inline TYPEs
Begin ==
  /\ pc = "start"
  /\ LET rc == normalizeAssertionPhrases(Trim(command))
         pre == PreParseTypes(rc)
     IN /\ remainingCommand' = rc
        /\ preParsedTypeActions' = pre
        /\ typedByParser' =
             [x \in 1..Len(pre) |-> [key |-> LowerAll(pre[x].selector), text |-> pre[x].text]]
  /\ retryCount' = 0
  /\ lastError' = ""
  /\ navState' = [currentPageUrl |-> pageUrl, navigationCount |-> 0]
  /\ pc' = "loop"
  /\ UNCHANGED <<jsonResponse, arg, ret, cookies, gateway, license, pause, locator, command, maxRetries, useCache, options, stepLogs, finalActions, actionIndex, navigationTriggered, error, failure, pageUrl,
                 now, cache, htmlContent, llmCalls, rounds, failedRounds, roundStart>>

\* the while condition, the vague-phrase strip and the break at the loop head
LoopHead ==
  /\ pc = "loop"
  /\ IF remainingCommand # <<>> /\ retryCount < maxRetries
     THEN LET rc == stripVague(remainingCommand)
          IN /\ remainingCommand' = rc
             /\ IF rc = <<>>
                THEN pc' = "exited" /\ UNCHANGED <<rounds, roundStart>>
                ELSE pc' = "inline" /\ rounds' = rounds + 1 /\ roundStart' = rc
     ELSE pc' = "exited" /\ UNCHANGED <<remainingCommand, rounds, roundStart>>
  /\ UNCHANGED <<jsonResponse, arg, ret, cookies, gateway, license, pause, locator, command, maxRetries, useCache, options, retryCount, lastError,
                 preParsedTypeActions, typedByParser, stepLogs, navState,
                 finalActions, actionIndex, navigationTriggered, error, failure, pageUrl,
                 now, cache, htmlContent, llmCalls, failedRounds>>

\* tryExecuteWaitCommand and the stripping of the inline phrases
InlineWait ==
  /\ pc = "inline"
  /\ LET kind == WaitCommandKind(remainingCommand)
     IN /\ cache' = IF kind \in {"cache", "reload"} /\ useCache
                    THEN InvalidatedCache(pageUrl) ELSE cache
        /\ cookies' = IF kind = "cache" THEN FALSE ELSE cookies
        /\ pause' = IF kind = "wait"
                    THEN WaitCommandSeconds(remainingCommand) * 1000 ELSE 0
        /\ remainingCommand' = IF kind # "none"
                               THEN StripInlinePhrases(remainingCommand)
                               ELSE remainingCommand
  /\ pc' = "pretype"
  /\ UNCHANGED <<jsonResponse, arg, ret, gateway, license, locator, command, maxRetries, useCache, options, retryCount, lastError,
                 preParsedTypeActions, typedByParser, stepLogs, navState,
                 finalActions, actionIndex, navigationTriggered, error, failure, pageUrl,
                 now, htmlContent, llmCalls, rounds, failedRounds, roundStart>>

\* one turn of the loop over preParsedTypeActions; filled: target.fill succeeded
\* within its retries
PreParsedType ==
  /\ pc = "pretype"
  /\ preParsedTypeActions # <<>>
  /\ LET a == Head(preParsedTypeActions)
     IN \E filled \in BOOLEAN :
          /\ preParsedTypeActions' = Tail(preParsedTypeActions)
          /\ IF filled
             THEN /\ stepLogs' = logStep(stepLogs, [action |-> "type",
                                   selector |-> Some(a.selector), status |-> "passed"])
                  /\ remainingCommand' =
                       Trim(RemoveLiteral(remainingCommand, a.originalSnippet))
                  /\ UNCHANGED <<pc, error>>
             ELSE /\ pc' = "catch"
                  /\ error' = "fill failed"
                  /\ UNCHANGED <<stepLogs, remainingCommand>>
  /\ UNCHANGED <<jsonResponse, arg, ret, cookies, gateway, license, pause, locator, command, maxRetries, useCache, options, retryCount, lastError,
                 typedByParser, navState, finalActions, actionIndex,
                 navigationTriggered, failure, pageUrl, now, cache, htmlContent, llmCalls,
                 rounds, failedRounds, roundStart>>

\* detectNavigationChange, then getOptimizedHTML
NavigationAndHTML ==
  /\ pc = "pretype"
  /\ preParsedTypeActions = <<>>
  /\ LET d == detectNavigationChange(pageUrl, navState, cache, useCache)
         h == getOptimizedHTML(pageUrl, now, d.cache, useCache)
     IN /\ navState' = d.state
        /\ cache' = h.cache
        /\ htmlContent' = [html |-> h.html, cached |-> h.cached]
  /\ pc' = "llm"
  /\ UNCHANGED <<jsonResponse, arg, ret, cookies, gateway, license, pause, locator, command, maxRetries, useCache, options, remainingCommand, retryCount,
                 lastError, preParsedTypeActions, typedByParser, stepLogs, finalActions, actionIndex, navigationTriggered, error, failure, pageUrl,
                 now, llmCalls, rounds, failedRounds, roundStart>>

\* invokeLLMWithFallback raised: every candidate failed
LLMFails ==
  /\ pc = "llm"
  /\ llmCalls' = llmCalls + 1
  /\ pc' = "catch"
  /\ error' = "All LLM models failed"
  /\ UNCHANGED <<jsonResponse, arg, ret, cookies, gateway, license, pause, locator, command, maxRetries, useCache, options, remainingCommand, retryCount,
                 lastError, preParsedTypeActions, typedByParser, stepLogs, navState, finalActions, actionIndex, navigationTriggered, failure,
                 pageUrl, now, cache, htmlContent, rounds, failedRounds, roundStart>>

\* invokeLLMWithFallback returned a response; the transcript, then the pipeline
LLMAnswers ==
  /\ pc = "llm"
  /\ \E response \in Responses :
       LET out == Pipeline(response, typedByParser)
       IN /\ jsonResponse' = Some(response)
          /\ IF out.error # ""
             THEN /\ pc' = "catch"
                  /\ error' = out.error
                  /\ UNCHANGED <<finalActions, actionIndex, navigationTriggered>>
             ELSE /\ pc' = "exec"
                  /\ finalActions' = out.actions
                  /\ actionIndex' = 1
                  /\ navigationTriggered' = FALSE
                  /\ UNCHANGED error
  /\ llmCalls' = llmCalls + 1
  /\ UNCHANGED <<arg, ret, cookies, gateway, license, pause, locator, command, maxRetries, useCache, options, remainingCommand, retryCount,
                 lastError, preParsedTypeActions, typedByParser, stepLogs, navState,
                 failure, pageUrl, now, cache, htmlContent, rounds, failedRounds,
                 roundStart>>

\* a clamp that always answers with the default
clampToDefault(v, d) == d

\* clamp: v ?? d
clamp(v, d) == IF v = None THEN d ELSE v[1]

\* the kinds whose browser operation may leave the page at another URL
NavigatingKinds == {"click", "toggle", "waitForNavigation", "waitForURL"}

\* resolveLocator can only return an element for a selector kind other than none
\* and a selector to look for
Resolvable(action) == action.selectorType # "none" /\ Truthy(action.selector)

\* the switch over action.action: the error thrown, "" when the action succeeds.
\* found: resolveLocator returned an element; ok: the browser operation did what
\* the action waits for (within its retries)
DispatchError(action, found, ok, soft) ==
  CASE action.action \in {"clearCache", "reload", "wait"} -> ""
    [] action.action = "waitForVisible" ->
         IF ~found THEN "waitForVisible needs a selector"
         ELSE IF ~ok THEN "waitFor visible timed out" ELSE ""
    [] action.action = "waitForHidden" ->
         IF ~found THEN "waitForHidden needs a selector"
         ELSE IF ~ok THEN "waitFor hidden timed out" ELSE ""
    [] action.action = "type" ->
         IF ~found THEN "Locator is required for type action"
         ELSE IF ~Truthy(action.text) THEN "Missing text for typing"
         ELSE IF ~ok THEN "fill failed" ELSE ""
    [] action.action \in {"click", "toggle"} ->
         IF ~found THEN "Locator is required for click/toggle"
         ELSE IF ~ok THEN "click failed" ELSE ""
    [] action.action = "assertVisible" ->
         IF ~found
         THEN (IF ~soft THEN "Locator is required for assertVisible"
               ELSE IF ~ok THEN "waitForLoadState timed out" ELSE "")
         ELSE IF ~ok THEN "waitFor visible timed out" ELSE ""
    [] action.action = "assertNotVisible" ->
         IF ~found THEN "Locator is required for assertNotVisible"
         ELSE IF ~ok THEN "Element visible but should NOT be" ELSE ""
    [] action.action \in {"waitForNavigation", "waitForURL"} ->
         IF ~ok THEN "navigation timed out" ELSE ""
    [] OTHER -> "Unsupported action returned by LLM"

\* a switch that logs the passed steps only
DispatchLogPassedOnly(logs, action, found) ==
  IF action.action \in {"type", "click", "toggle"}
  THEN logStep(logs, [action |-> action.action, selector |-> action.selector,
                      status |-> "passed"])
  ELSE logs

\* the step the switch logs for a successful action, if any
DispatchLog(logs, action, found) ==
  CASE action.action \in {"type", "click", "toggle"} ->
         logStep(logs, [action |-> action.action, selector |-> action.selector,
                        status |-> "passed"])
    [] action.action = "assertVisible" /\ ~found ->
         logStep(logs, [action |-> "assertVisible", selector |-> action.selector,
                        status |-> "skipped"])
    [] OTHER -> logs

\* the instruction after one turn of the for loop: consumeProcessed is reached only
\* when the switch did not throw
ConsumedBy(rc, action, err) == IF err # "" THEN rc ELSE consumeProcessed(rc, action)

\* one turn of the for loop over finalActions: resolve, dispatch, consume
ExecuteAction ==
  /\ pc = "exec"
  /\ LET action == finalActions[actionIndex]
     IN \E found \in (IF Resolvable(action) THEN BOOLEAN ELSE {FALSE}),
           ok \in BOOLEAN,
           urlAfter \in (IF action.action \in NavigatingKinds THEN Urls ELSE {pageUrl}) :
          LET err == DispatchError(action, found, ok, options.softAssertNoLocator)
              cleared == IF action.action \in {"clearCache", "reload"} /\ useCache
                         THEN InvalidatedCache(pageUrl) ELSE cache
              d == IF action.action \in {"click", "toggle"}
                   THEN detectNavigationChange(urlAfter, navState, cleared, useCache)
                   ELSE [nav |-> FALSE, state |-> navState, cache |-> cleared]
          IN /\ remainingCommand' = ConsumedBy(remainingCommand, action, err)
             /\ locator' = IF found THEN "element" ELSE "null"
             /\ cookies' = IF action.action = "clearCache" /\ ~options.safeClearCookies
                           THEN FALSE ELSE cookies
             /\ pause' = IF action.action = "wait"
                         THEN clamp(action.duration, 1) * 1000 ELSE 0
             /\ IF err # ""
                THEN /\ pc' = "catch"
                     /\ error' = err
                     /\ UNCHANGED <<stepLogs, navState, actionIndex, navigationTriggered,
                                    pageUrl, cache>>
                ELSE /\ pageUrl' = urlAfter
                     /\ stepLogs' = DispatchLog(stepLogs, action, found)
                     /\ navState' = d.state
                     /\ cache' = d.cache
                     /\ navigationTriggered' = d.nav
                     /\ IF d.nav \/ actionIndex = Len(finalActions)
                        THEN pc' = "roundEnd" /\ UNCHANGED actionIndex
                        ELSE pc' = "exec" /\ actionIndex' = actionIndex + 1
                     /\ UNCHANGED error
  /\ UNCHANGED <<jsonResponse, arg, ret, gateway, license, command, maxRetries, useCache, options, retryCount, lastError,
                 preParsedTypeActions, typedByParser, finalActions, failure,
                 now, htmlContent, llmCalls, rounds, failedRounds, roundStart>>

\* the end of the round with the line `retryCount = 0` left out
RoundEndKeepingCount ==
  /\ pc = "roundEnd"
  /\ LET rc == stripVague(remainingCommand)
     IN /\ remainingCommand' = rc
        /\ pc' = IF rc = <<>> THEN "exited" ELSE "loop"
  /\ failedRounds' = 0
  /\ RoundLocalsGone
  /\ UNCHANGED <<arg, ret, cookies, gateway, license, command, maxRetries, useCache, options, retryCount, lastError,
                 preParsedTypeActions, typedByParser, stepLogs, navState, error, failure,
                 pageUrl, now, cache, llmCalls, rounds, roundStart>>

\* the end of a round that raised nothing: strip again, leave the loop or reset the
\* retries
RoundEnd ==
  /\ pc = "roundEnd"
  /\ LET rc == stripVague(remainingCommand)
     IN /\ remainingCommand' = rc
        /\ IF rc = <<>>
           THEN pc' = "exited" /\ UNCHANGED <<retryCount, lastError>>
           ELSE pc' = "loop" /\ retryCount' = 0 /\ lastError' = ""
  /\ failedRounds' = 0
  /\ RoundLocalsGone
  /\ UNCHANGED <<arg, ret, cookies, gateway, license, command, maxRetries, useCache, options, preParsedTypeActions,
                 typedByParser, stepLogs, navState, error, failure, pageUrl,
                 now, cache, llmCalls, rounds, roundStart>>

\* if (retryCount >= maxRetries) throw
RetriesExhausted(count, max) == count >= max

\* the catch block: count the attempt, raise when none is left, else back off
Catch ==
  /\ pc = "catch"
  /\ lastError' = error
  /\ retryCount' = retryCount + 1
  /\ failedRounds' = failedRounds + 1
  /\ error' = ""
  /\ IF RetriesExhausted(retryCount + 1, maxRetries)
     THEN /\ pc' = "Failed"
          /\ failure' = Some([attempts |-> maxRetries, message |-> error])
     ELSE pc' = "loop" /\ UNCHANGED failure
  /\ RoundLocalsGone
  /\ UNCHANGED <<arg, ret, cookies, gateway, license, command, maxRetries, useCache, options, remainingCommand,
                 preParsedTypeActions, typedByParser, stepLogs, navState,
                 pageUrl, now, cache, llmCalls, rounds, roundStart>>

\* a run that records its execution whatever its licence
LogsExecutionAlways(lic) == TRUE

\* if (!runningTokenless && token)
LogsExecution(lic) == ~lic.runningTokenless /\ lic.token # "missing"

\* after the loop: logExecution(token) for a run that has a token, then the run
\* returns to its caller
Finish ==
  /\ pc = "exited"
  /\ license' = IF LogsExecution(license)
                THEN [license EXCEPT !.logged = @ + 1] ELSE license
  /\ pc' = "returned"
  /\ UNCHANGED <<jsonResponse, arg, ret, cookies, gateway, pause, locator, command, maxRetries, useCache, options, remainingCommand, retryCount,
                 lastError, preParsedTypeActions, typedByParser, stepLogs, navState, finalActions, actionIndex, navigationTriggered, error, failure,
                 pageUrl, now, cache, htmlContent, llmCalls, rounds, failedRounds,
                 roundStart>>

Next ==
  \/ Begin
  \/ LoopHead
  \/ InlineWait
  \/ PreParsedType
  \/ NavigationAndHTML
  \/ LLMFails
  \/ LLMAnswers
  \/ ExecuteAction
  \/ RoundEnd
  \/ Catch
  \/ Finish

Spec == Init /\ [][Next]_vars

\* the loop of the run is a sequence of awaits; each browser operation and model
\* call returns or raises, so a run that has not ended does not stay forever at
\* the point where it is
PcValues ==
  {"start", "loop", "inline", "pretype", "llm", "exec", "roundEnd", "catch",
   "exited", "returned", "Failed", "page"}
Ended == pc \in {"returned", "Failed", "page"}
Resume == ~Ended /\ pc' \in PcValues \ {pc}
FairSpec == Spec /\ WF_pc(Resume)

TypeOK == Tokenised(remainingCommand)

(***************************************************************************)
(* The page cache on its own: getOptimizedHTML, detectNavigationChange and *)
(* clearPilotQA_AI_Cache called in any order while the page navigates and  *)
(* the clock advances                                                      *)
(***************************************************************************)
MaxNavigations == 2

\* the cache as a getOptimizedHTML(useCache = true) on the home page left it
CachedHome ==
  [htmlContent |-> Some(Summarize(HomeUrl)), htmlTimestamp |-> StartTime,
   currentUrl |-> HomeUrl]

CacheInit ==
  /\ arg = None
  /\ ret = None
  /\ command = <<>>
  /\ maxRetries = 0
  /\ useCache \in BOOLEAN
  /\ options = [softAssertNoLocator |-> FALSE, safeClearCookies |-> FALSE]
  /\ pc = "page"
  /\ remainingCommand = <<>>
  /\ retryCount = 0
  /\ lastError = ""
  /\ preParsedTypeActions = <<>>
  /\ typedByParser = <<>>
  /\ stepLogs = <<>>
  /\ navState = [currentPageUrl |-> HomeUrl, navigationCount |-> 0]
  /\ finalActions = <<>>
  /\ actionIndex = 0
  /\ navigationTriggered = FALSE
  /\ error = ""
  /\ failure = None
  /\ pageUrl = HomeUrl
  /\ now = StartTime
  /\ cache = CachedHome
  /\ htmlContent = NoHtml
  /\ llmCalls = 0
  /\ rounds = 0
  /\ failedRounds = 0
  /\ roundStart = <<>>
  /\ gateway = IdleGateway({})
  /\ license = Licensed
  /\ locator = "unset"
  /\ pause = 0
  /\ cookies = TRUE
  /\ jsonResponse = None

\* a call of getOptimizedHTML(page, containerSelector, useCache)
CallGetOptimizedHTML ==
  /\ pc = "page"
  /\ LET h == getOptimizedHTML(pageUrl, now, cache, useCache)
     IN /\ cache' = h.cache
        /\ htmlContent' = [html |-> h.html, cached |-> h.cached]
  /\ UNCHANGED <<jsonResponse, arg, ret, cookies, gateway, license, pause, locator, command, maxRetries, useCache, options, pc, remainingCommand, retryCount,
                 lastError, preParsedTypeActions, typedByParser, stepLogs, navState,
                 finalActions, actionIndex, navigationTriggered, error, failure, pageUrl,
                 now, llmCalls, rounds, failedRounds, roundStart>>

\* a call of detectNavigationChange(page, navState, useCache)
CallDetectNavigationChange ==
  /\ pc = "page"
  /\ LET d == detectNavigationChange(pageUrl, navState, cache, useCache)
     IN /\ navState' = d.state
        /\ cache' = d.cache
  /\ UNCHANGED <<jsonResponse, arg, ret, cookies, gateway, license, pause, locator, command, maxRetries, useCache, options, pc, remainingCommand, retryCount,
                 lastError, preParsedTypeActions, typedByParser, stepLogs, finalActions,
                 actionIndex, navigationTriggered, error, failure, pageUrl, now,
                 htmlContent, llmCalls, rounds, failedRounds, roundStart>>

\* a call of clearPilotQA_AI_Cache()
CallClearCache ==
  /\ pc = "page"
  /\ cache' = EmptyCache
  /\ UNCHANGED <<jsonResponse, arg, ret, cookies, gateway, license, pause, locator, command, maxRetries, useCache, options, pc, remainingCommand, retryCount,
                 lastError, preParsedTypeActions, typedByParser, stepLogs, navState,
                 finalActions, actionIndex, navigationTriggered, error, failure, pageUrl,
                 now, htmlContent, llmCalls, rounds, failedRounds, roundStart>>

\* the cache handling of a reload or clearCache action and of an inline
\* reload/cache-clear phrase: if (useCache) { cache.htmlContent = null; ... }
CallReloadOrClear ==
  /\ pc = "page"
  /\ cache' = IF useCache THEN InvalidatedCache(pageUrl) ELSE cache
  /\ UNCHANGED <<jsonResponse, arg, ret, cookies, gateway, license, pause, locator, command, maxRetries, useCache, options, pc, remainingCommand, retryCount,
                 lastError, preParsedTypeActions, typedByParser, stepLogs, navState,
                 finalActions, actionIndex, navigationTriggered, error, failure, pageUrl,
                 now, htmlContent, llmCalls, rounds, failedRounds, roundStart>>

\* the page goes to another URL
Navigate ==
  /\ pc = "page"
  /\ navState.navigationCount < MaxNavigations
  /\ \E u \in Urls \ {pageUrl} : pageUrl' = u
  /\ UNCHANGED <<jsonResponse, arg, ret, cookies, gateway, license, pause, locator, command, maxRetries, useCache, options, pc, remainingCommand, retryCount,
                 lastError, preParsedTypeActions, typedByParser, stepLogs, navState,
                 finalActions, actionIndex, navigationTriggered, error, failure, now,
                 cache, htmlContent, llmCalls, rounds, failedRounds, roundStart>>

\* Date.now() advances
Tick ==
  /\ pc = "page"
  /\ now < StartTime + MaxTicks * TickMs
  /\ now' = now + TickMs
  /\ UNCHANGED <<jsonResponse, arg, ret, cookies, gateway, license, pause, locator, command, maxRetries, useCache, options, pc, remainingCommand, retryCount,
                 lastError, preParsedTypeActions, typedByParser, stepLogs,
                 navState, finalActions, actionIndex, navigationTriggered, error, failure,
                 pageUrl, cache, htmlContent, llmCalls, rounds, failedRounds, roundStart>>

CacheNext ==
  \/ CallGetOptimizedHTML
  \/ CallDetectNavigationChange
  \/ CallClearCache
  \/ CallReloadOrClear
  \/ Navigate
  \/ Tick

CacheSpec == CacheInit /\ [][CacheNext]_vars

(***************************************************************************)
(* The LLM gateway on its own: one call of invokeLLMWithFallback, each     *)
(* invocation succeeding or throwing, while API keys may leave process.env *)
(***************************************************************************)
engineVars ==
  <<command, maxRetries, useCache, options, pc, remainingCommand, retryCount, lastError,
    preParsedTypeActions, typedByParser, stepLogs, navState, finalActions,
    actionIndex, navigationTriggered, error, failure, pageUrl, now, cache, htmlContent,
    llmCalls, rounds, failedRounds, roundStart, locator, pause, cookies, jsonResponse>>

\* the engine at rest at `at` while one of its collaborators runs
Parked(at) ==
  /\ command = <<>>
  /\ maxRetries = 0
  /\ useCache = FALSE
  /\ options = [softAssertNoLocator |-> FALSE, safeClearCookies |-> FALSE]
  /\ pc = at
  /\ remainingCommand = <<>>
  /\ retryCount = 0
  /\ lastError = ""
  /\ preParsedTypeActions = <<>>
  /\ typedByParser = <<>>
  /\ stepLogs = <<>>
  /\ navState = [currentPageUrl |-> HomeUrl, navigationCount |-> 0]
  /\ finalActions = <<>>
  /\ actionIndex = 0
  /\ navigationTriggered = FALSE
  /\ error = ""
  /\ failure = None
  /\ pageUrl = HomeUrl
  /\ now = StartTime
  /\ cache = EmptyCache
  /\ htmlContent = NoHtml
  /\ llmCalls = 0
  /\ rounds = 0
  /\ failedRounds = 0
  /\ roundStart = <<>>
  /\ locator = "unset"
  /\ pause = 0
  /\ cookies = TRUE
  /\ jsonResponse = None

GatewayInit ==
  /\ arg = None
  /\ ret = None
  /\ Parked("gateway")
  /\ license = Licensed
  /\ \E env \in SUBSET {"gemini", "openai", "anthropic"} : gateway = IdleGateway(env)

\* const models = availableLLMs(); let lastError = null
GatewayInvoke ==
  /\ gateway.pc = "idle"
  /\ gateway' = [gateway EXCEPT !.pc = "loop", !.models = availableLLMs(gateway.env),
                                !.x = 1, !.lastError = None]
  /\ UNCHANGED <<engineVars, license, arg, ret>>

\* an API key is removed from process.env while the loop awaits
GatewayEnvChange ==
  /\ gateway.pc = "loop"
  /\ \E p \in gateway.env : gateway' = [gateway EXCEPT !.env = gateway.env \ {p}]
  /\ UNCHANGED <<engineVars, license, arg, ret>>

\* if (!hasKeyFor(cfg.provider)) continue
GatewaySkip ==
  /\ gateway.pc = "loop"
  /\ gateway.x <= Len(gateway.models)
  /\ ~hasKeyFor(gateway.env, gateway.models[gateway.x].provider)
  /\ gateway' = [gateway EXCEPT !.x = gateway.x + 1,
                                !.skipped = gateway.skipped \cup {gateway.x}]
  /\ UNCHANGED <<engineVars, license, arg, ret>>

\* a return that names the first candidate of the list
ReturnedNamingFirst(g) ==
  [g EXCEPT !.pc = "returned", !.result = Some([modelName |-> g.models[1].model])]

\* return { response, modelName: cfg.model, ... }
Returned(g) ==
  [g EXCEPT !.pc = "returned", !.result = Some([modelName |-> g.models[g.x].model])]

\* a catch block that goes to the next candidate without keeping the error
CaughtForgetting(g, message) == [g EXCEPT !.x = g.x + 1]

\* catch (e) { lastError = e }, and the next turn of the loop
Caught(g, message) == [g EXCEPT !.lastError = Some(message), !.x = g.x + 1]

\* the try block of one candidate: instance.invoke(messages) returns or throws
GatewayTry ==
  /\ gateway.pc = "loop"
  /\ gateway.x <= Len(gateway.models)
  /\ hasKeyFor(gateway.env, gateway.models[gateway.x].provider)
  /\ \E out \in {"ok"} \cup InvokeErrors :
       gateway' = [(IF out = "ok" THEN Returned(gateway) ELSE Caught(gateway, out))
                     EXCEPT !.tried = Append(gateway.tried,
                                             [x |-> gateway.x, out |-> out])]
  /\ UNCHANGED <<engineVars, license, arg, ret>>

\* throw new Error(`All LLM models failed. Last error: ${lastError?.message}`)
GatewayExhausted ==
  /\ gateway.pc = "loop"
  /\ gateway.x > Len(gateway.models)
  /\ gateway' = [gateway EXCEPT !.pc = "raised",
                                !.raised = Some([lastError |-> gateway.lastError])]
  /\ UNCHANGED <<engineVars, license, arg, ret>>

GatewayNext ==
  \/ GatewayInvoke
  \/ GatewayEnvChange
  \/ GatewaySkip
  \/ GatewayTry
  \/ GatewayExhausted

GatewaySpec == GatewayInit /\ [][GatewayNext]_vars

(***************************************************************************)
(* The token and quota gate in front of the loop                           *)
(***************************************************************************)
\* const dailyLimit = 5
DailyLimit == 5
\* the largest monthly usage and monthly limit the account answers with
MaxUsage == 2

\* what validateToken makes of the token the run was given
Tokens == {"missing", "invalid", "valid"}

\* the run as PilotQA_AI is entered: the token of the options or the environment,
\* the tokenless runs counted today, nothing read from the account yet
Unlicensed(token, usedToday) ==
  [token |-> token, usedToday |-> usedToday, runningTokenless |-> FALSE,
   requested |-> FALSE, quota |-> "unread", limit |-> None, usage |-> 0, logged |-> 0]

GateInit ==
  /\ arg = None
  /\ ret = None
  /\ command \in Commands \ LongCommands
  /\ maxRetries = 1
  /\ useCache \in BOOLEAN
  /\ options \in [softAssertNoLocator : BOOLEAN, safeClearCookies : {FALSE}]
  /\ pc = "gate"
  /\ remainingCommand = <<>>
  /\ retryCount = 0
  /\ lastError = ""
  /\ preParsedTypeActions = <<>>
  /\ typedByParser = <<>>
  /\ stepLogs = <<>>
  /\ navState = [currentPageUrl |-> "", navigationCount |-> 0]
  /\ finalActions = <<>>
  /\ actionIndex = 0
  /\ navigationTriggered = FALSE
  /\ error = ""
  /\ failure = None
  /\ pageUrl = HomeUrl
  /\ now = StartTime
  /\ cache = EmptyCache
  /\ htmlContent = NoHtml
  /\ llmCalls = 0
  /\ rounds = 0
  /\ failedRounds = 0
  /\ roundStart = <<>>
  /\ gateway = IdleGateway({})
  /\ locator = "unset"
  /\ pause = 0
  /\ cookies = TRUE
  /\ jsonResponse = None
  /\ \E token \in Tokens, usedToday \in (DailyLimit - 1)..DailyLimit :
       license = Unlicensed(token, usedToday)

\* the run ends with the exception the gate threw
Aborted(message) ==
  /\ pc' = "Aborted"
  /\ failure' = Some([attempts |-> 0, message |-> message])

\* the token check: a valid token passes; without one the run goes on tokenless
\* while free runs are left today, and otherwise asks the token service once
TokenGate ==
  /\ pc = "gate"
  /\ IF license.token = "valid"
     THEN /\ pc' = "quota"
          /\ UNCHANGED <<license, failure>>
     ELSE IF license.usedToday < DailyLimit
     THEN /\ license' = [license EXCEPT !.usedToday = @ + 1, !.runningTokenless = TRUE]
          /\ pc' = "quota"
          /\ UNCHANGED failure
     ELSE \E answer \in {"raises", "invalid", "valid"} :
            /\ license' = [license EXCEPT !.requested = TRUE,
                                          !.token = IF answer = "raises" THEN @ ELSE answer]
            /\ IF answer = "valid"
               THEN pc' = "quota" /\ UNCHANGED failure
               ELSE Aborted("Free plan daily limit reached. Subscribe to Pro or Enterprise.")
  /\ UNCHANGED <<jsonResponse, arg, ret, cookies, gateway, locator, pause, command, maxRetries, useCache, options,
                 remainingCommand, retryCount, lastError, preParsedTypeActions,
                 typedByParser, stepLogs, navState, finalActions, actionIndex,
                 navigationTriggered, error, pageUrl, now, cache, htmlContent,
                 llmCalls, rounds, failedRounds, roundStart>>

\* a monthly check that lets the last execution of the plan through twice
MonthlyLimitExceeded(limit, usage) == limit # None /\ usage > limit[1]

\* plan.executionsPerMonth !== "unlimited" && usage >= plan.executionsPerMonth
MonthlyLimitReached(limit, usage) == limit # None /\ usage >= limit[1]

\* the monthly check of a run that has a token: executionsThisMonth raises, or
\* answers with the plan and the usage
QuotaGate ==
  /\ pc = "quota"
  /\ IF license.runningTokenless
     THEN /\ pc' = "start"
          /\ UNCHANGED <<license, failure>>
     ELSE \/ /\ license' = [license EXCEPT !.quota = "raised"]
             /\ Aborted("executionsThisMonth failed")
          \/ \E limit \in {None} \cup {Some(n) : n \in 1..MaxUsage}, usage \in 0..MaxUsage :
               /\ license' = [license EXCEPT !.quota = "read", !.limit = limit,
                                             !.usage = usage]
               /\ IF MonthlyLimitReached(limit, usage)
                  THEN Aborted("Monthly execution limit reached")
                  ELSE pc' = "start" /\ UNCHANGED failure
  /\ UNCHANGED <<jsonResponse, arg, ret, cookies, gateway, locator, pause, command, maxRetries, useCache, options,
                 remainingCommand, retryCount, lastError, preParsedTypeActions,
                 typedByParser, stepLogs, navState, finalActions, actionIndex,
                 navigationTriggered, error, pageUrl, now, cache, htmlContent,
                 llmCalls, rounds, failedRounds, roundStart>>

GateNext ==
  \/ TokenGate
  \/ QuotaGate
  \/ Next

GateSpec == GateInit /\ [][GateNext]_vars

(***************************************************************************)
(* stripVague on its own: applied twice to instructions that end with      *)
(* vague phrases                                                           *)
(***************************************************************************)
\* the largest number of vague phrases an instruction ends with
MaxPhrases == 2
\* the largest number of tokens of an instruction
MaxInstructionLen == 16

\* phrases VAGUE_ENDING_PATTERNS matches, at least one for each pattern
VaguePhrases ==
  { <<"check", SP, "if", SP, "page", SP, "displayed">>,
    <<"verify", SP, "page", SP, "displayed">>,
    <<"ensure", SP, "page", SP, "displayed">>,
    <<"verify", SP, "everything", SP, "looks", SP, "good">>,
    <<"check", SP, "page">>,
    <<"check", SP, "the", SP, "page">>,
    <<"verify", SP, "page">>,
    <<"confirm", SP, "we", SP, "are", SP, "on", SP, "right", SP, "page">>,
    <<"verify", SP, "product", SP, "page", SP, "displayed">> }

\* what precedes the vague phrases, and what follows them
VagueHeads == {<<>>, <<"Foo", SP>>}
VagueTails == {<<>>, <<".">>}

RECURSIVE JoinPhrases(_)
JoinPhrases(ps) ==
  IF ps = <<>> THEN <<>>
  ELSE IF Len(ps) = 1 THEN ps[1]
  ELSE ps[1] \o <<SP>> \o JoinPhrases(Tail(ps))

\* the instructions that end with 1..MaxPhrases vague phrases, in any order
VagueInstructions ==
  { x \in { head \o JoinPhrases(ps) \o tail :
              head \in VagueHeads, tail \in VagueTails,
              ps \in UNION {[1..n -> VaguePhrases] : n \in 1..MaxPhrases} } :
      Len(x) <= MaxInstructionLen }

StripInit ==
  /\ arg = None
  /\ ret = None
  /\ command \in VagueInstructions
  /\ remainingCommand = command
  /\ pc = "strip"
  /\ maxRetries = 0
  /\ useCache = FALSE
  /\ options = [softAssertNoLocator |-> FALSE, safeClearCookies |-> FALSE]
  /\ retryCount = 0
  /\ lastError = ""
  /\ preParsedTypeActions = <<>>
  /\ typedByParser = <<>>
  /\ stepLogs = <<>>
  /\ navState = [currentPageUrl |-> HomeUrl, navigationCount |-> 0]
  /\ finalActions = <<>>
  /\ actionIndex = 0
  /\ navigationTriggered = FALSE
  /\ error = ""
  /\ failure = None
  /\ pageUrl = HomeUrl
  /\ now = StartTime
  /\ cache = EmptyCache
  /\ htmlContent = NoHtml
  /\ llmCalls = 0
  /\ rounds = 0
  /\ failedRounds = 0
  /\ roundStart = <<>>
  /\ locator = "unset"
  /\ pause = 0
  /\ cookies = TRUE
  /\ jsonResponse = None
  /\ gateway = IdleGateway({})
  /\ license = Licensed

\* stripVague(command)
StripOnce ==
  /\ pc = "strip"
  /\ remainingCommand' = stripVague(remainingCommand)
  /\ pc' = "stripped"
  /\ UNCHANGED <<jsonResponse, arg, ret, cookies, gateway, license, locator, pause, command, maxRetries, useCache,
                 options, retryCount, lastError, preParsedTypeActions, typedByParser,
                 stepLogs, navState, finalActions, actionIndex, navigationTriggered,
                 error, failure, pageUrl, now, cache, htmlContent, llmCalls, rounds,
                 failedRounds, roundStart>>

\* stripVague(stripVague(command))
StripAgain ==
  /\ pc = "stripped"
  /\ remainingCommand' = stripVague(remainingCommand)
  /\ pc' = "strippedAgain"
  /\ UNCHANGED <<jsonResponse, arg, ret, cookies, gateway, license, locator, pause, command, maxRetries, useCache,
                 options, retryCount, lastError, preParsedTypeActions, typedByParser,
                 stepLogs, navState, finalActions, actionIndex, navigationTriggered,
                 error, failure, pageUrl, now, cache, htmlContent, llmCalls, rounds,
                 failedRounds, roundStart>>

StripNext ==
  \/ StripOnce
  \/ StripAgain

StripSpec == StripInit /\ [][StripNext]_vars

(***************************************************************************)
(* coerceSelectorType on its own                                           *)
(***************************************************************************)
\* the largest number of tokens of a selector
MaxSelectorLen == 2

SelectorTokens == {"xpath", "=", "/", ".", "#", "[", ":", SP, "Login"}

\* the selector of a parsed action: absent, or a string
ParsedSelectors ==
  {None} \cup
  {Some(sel) : sel \in UNION {[1..n -> SelectorTokens] : n \in 0..MaxSelectorLen}}

\* the parsed actions coerceSelectorType is applied to
ParsedActions21 ==
  {[RawAction(a) EXCEPT !.selector = sel, !.selectorType = st] :
     a \in {"click", "wait"}, sel \in ParsedSelectors,
     st \in {None} \cup {Some(t) : t \in SelectorTypes}}

CoerceInit ==
  /\ Parked("coerce")
  /\ gateway = IdleGateway({})
  /\ license = Licensed
  /\ arg \in ParsedActions21
  /\ ret = None

\* coerceSelectorType(a)
Coerce ==
  /\ pc = "coerce"
  /\ ret' = Some(coerceSelectorType(arg))
  /\ pc' = "coerced"
  /\ UNCHANGED <<jsonResponse, arg, cookies, gateway, license, locator, pause, command, maxRetries,
                 useCache, options, remainingCommand, retryCount, lastError,
                 preParsedTypeActions, typedByParser, stepLogs, navState, finalActions,
                 actionIndex, navigationTriggered, error, failure, pageUrl, now, cache,
                 htmlContent, llmCalls, rounds, failedRounds, roundStart>>

CoerceNext == Coerce

CoerceSpec == CoerceInit /\ [][CoerceNext]_vars

(***************************************************************************)
(* normalizeAssertionPhrases on its own                                    *)
(***************************************************************************)
\* the largest number of words put in capitals in a phrasing
MaxCapitals == 1

\* the visibility phrasings, as lists of words
VisibilityPhrasings ==
  { <<"should", "be", "visible">>, <<"must", "be", "visible">>, <<"is", "visible">>,
    <<"should", "not", "be", "visible">>, <<"must", "not", "be", "visible">>,
    <<"is", "not", "visible">>, <<"should", "be", "displayed">>,
    <<"should", "not", "be", "displayed">>, <<"displayed">>, <<"appearing">>,
    <<"hidden">> }

\* String.prototype.toUpperCase, on one word of a phrasing
UpperCase(t) ==
  CASE t = "should" -> "SHOULD"
    [] t = "must" -> "MUST"
    [] t = "be" -> "BE"
    [] t = "is" -> "IS"
    [] t = "not" -> "NOT"
    [] t = "visible" -> "VISIBLE"
    [] t = "displayed" -> "DISPLAYED"
    [] t = "appearing" -> "APPEARING"
    [] t = "hidden" -> "HIDDEN"
    [] OTHER -> t

\* the words ws with those at the positions `caps` in capitals
Capitalised(ws, caps) ==
  [i \in 1..Len(ws) |-> IF i \in caps THEN UpperCase(ws[i]) ELSE ws[i]]

\* the words separated by one space
RECURSIVE Spaced(_)
Spaced(ws) ==
  IF Len(ws) = 1 THEN <<ws[1]>> ELSE <<ws[1], SP>> \o Spaced(Tail(ws))

\* the letter cases of a phrasing: lower case, all capitals, up to MaxCapitals
\* words in capitals
LetterCases(ws) ==
  {Capitalised(ws, caps) :
     caps \in {c \in SUBSET (1..Len(ws)) : Cardinality(c) <= MaxCapitals
                                             \/ c = 1..Len(ws)}}

PhraseHeads == {<<>>, <<"Login", SP>>}
PhraseTails == {<<>>, <<SP, "then">>}

AssertionInputs ==
  {head \o Spaced(ws) \o tail :
     head \in PhraseHeads, tail \in PhraseTails,
     ws \in UNION {LetterCases(p) : p \in VisibilityPhrasings}}

NormInit ==
  /\ Parked("normalize")
  /\ gateway = IdleGateway({})
  /\ license = Licensed
  /\ arg \in AssertionInputs
  /\ ret = None

\* normalizeAssertionPhrases(raw)
NormalizeAssertion ==
  /\ pc = "normalize"
  /\ ret' = Some(normalizeAssertionPhrases(arg))
  /\ pc' = "normalized"
  /\ UNCHANGED <<jsonResponse, arg, cookies, gateway, license, locator, pause, command, maxRetries,
                 useCache, options, remainingCommand, retryCount, lastError,
                 preParsedTypeActions, typedByParser, stepLogs, navState, finalActions,
                 actionIndex, navigationTriggered, error, failure, pageUrl, now, cache,
                 htmlContent, llmCalls, rounds, failedRounds, roundStart>>

NormNext == NormalizeAssertion

NormSpec == NormInit /\ [][NormNext]_vars

(***************************************************************************)
(* Per-action retries: withRetries and the calls of it                     *)
(***************************************************************************)
MaxAttempts == 2
DefaultBaseDelayMs == 500
ThrownErrors == {"e1", "e2"}
FnResults == {"r1", "r2"}

\* the calls of withRetries in the engine, with the attempts each passes; "fn" is
\* a call with any function and any number of attempts
CallSites ==
  {[site |-> "preParsedType", attempts |-> 1], [site |-> "waitForVisible", attempts |-> 1],
   [site |-> "waitForHidden", attempts |-> 1], [site |-> "type", attempts |-> 1],
   [site |-> "click", attempts |-> 2], [site |-> "toggle", attempts |-> 2]}
     \cup {[site |-> "fn", attempts |-> k] : k \in 0..MaxAttempts}

\* the browser operation fn performs at each site
SiteOperation(site) ==
  CASE site \in {"preParsedType", "type"} -> "fill"
    [] site \in {"waitForVisible", "waitForHidden"} -> "waitFor"
    [] site \in {"click", "toggle"} -> "click"
    [] OTHER -> "fn"

\* one invocation of fn: the browser operations it performs and how it ends
\* ([ops, ok, value or error]); the click sites catch the failure of the normal
\* click and click again with force
FnRuns(site) ==
  IF site \in {"click", "toggle"}
  THEN {[ops |-> <<"click">>, ok |-> TRUE, out |-> v] : v \in FnResults}
         \cup {[ops |-> <<"click", "click force">>, ok |-> TRUE, out |-> v] : v \in FnResults}
         \cup {[ops |-> <<"click", "click force">>, ok |-> FALSE, out |-> e] :
                  e \in ThrownErrors}
  ELSE {[ops |-> <<SiteOperation(site)>>, ok |-> TRUE, out |-> v] : v \in FnResults}
         \cup {[ops |-> <<SiteOperation(site)>>, ok |-> FALSE, out |-> e] :
                  e \in ThrownErrors}

\* a delay that does not grow with the attempts
RetryDelayFlat(baseDelayMs, i) == baseDelayMs

\* setTimeout(r, baseDelayMs * (i + 1))
RetryDelay(baseDelayMs, i) == baseDelayMs * (i + 1)

\* for (let i = 0; i <= attempts; i++)
LoopContinues(i, attempts) == i <= attempts

\* the frame of withRetries on entry: i, the runs of fn so far, the delays waited,
\* `last`, and the value returned or the error thrown
RetryInit ==
  /\ Parked("withRetries")
  /\ gateway = IdleGateway({})
  /\ license = Licensed
  /\ \E c \in CallSites :
       arg = [site |-> c.site, attempts |-> c.attempts, baseDelayMs |-> DefaultBaseDelayMs]
  /\ ret = [i |-> 0, runs |-> <<>>, delays |-> <<>>, last |-> None, result |-> None,
            thrown |-> None]

\* try { return await fn(); } catch (e) { last = e; ... }
InvokeFn ==
  /\ pc = "withRetries"
  /\ \E run \in FnRuns(arg.site) :
       IF run.ok
       THEN /\ ret' = [ret EXCEPT !.runs = Append(@, run), !.result = Some(run.out)]
            /\ pc' = "retryReturned"
       ELSE /\ ret' = [ret EXCEPT !.runs = Append(@, run), !.last = Some(run.out)]
            /\ pc' = "retryDelay"
  /\ UNCHANGED <<jsonResponse, arg, cookies, gateway, license, locator, pause, command, maxRetries,
                 useCache, options, remainingCommand, retryCount, lastError,
                 preParsedTypeActions, typedByParser, stepLogs, navState, finalActions,
                 actionIndex, navigationTriggered, error, failure, pageUrl, now, cache,
                 htmlContent, llmCalls, rounds, failedRounds, roundStart>>

\* await new Promise((r) => setTimeout(r, baseDelayMs * (i + 1))); i++; the loop
\* test; throw last when the loop is over
RetryTimerFires ==
  /\ pc = "retryDelay"
  /\ IF LoopContinues(ret.i + 1, arg.attempts)
     THEN /\ ret' = [ret EXCEPT !.delays = Append(@, RetryDelay(arg.baseDelayMs, ret.i)),
                                !.i = @ + 1]
          /\ pc' = "withRetries"
     ELSE /\ ret' = [ret EXCEPT !.delays = Append(@, RetryDelay(arg.baseDelayMs, ret.i)),
                                !.i = @ + 1, !.thrown = ret.last]
          /\ pc' = "retryThrown"
  /\ UNCHANGED <<jsonResponse, arg, cookies, gateway, license, locator, pause, command, maxRetries,
                 useCache, options, remainingCommand, retryCount, lastError,
                 preParsedTypeActions, typedByParser, stepLogs, navState, finalActions,
                 actionIndex, navigationTriggered, error, failure, pageUrl, now, cache,
                 htmlContent, llmCalls, rounds, failedRounds, roundStart>>

RetryNext == InvokeFn \/ RetryTimerFires

RetrySpec == RetryInit /\ [][RetryNext]_vars

(***************************************************************************)
(* Locator resolution: pickFirstExisting, firstVisible, resolveLocator     *)
(***************************************************************************)
MaxFrames == 3
MaxCands == 2
\* Math.min(count, 5)
FirstVisibleLimit == 5

\* what one candidate locator finds in one document: count() throws, or the matches
\* in document order, each visible or not
Hidden(n) == [x \in 1..n |-> FALSE]
MatchLists ==
  {<<>>, <<TRUE>>, <<FALSE>>, <<FALSE, TRUE>>, Hidden(FirstVisibleLimit) \o <<TRUE>>}
CandOutcomes ==
  {[throws |-> TRUE, matches |-> <<>>]}
    \cup {[throws |-> FALSE, matches |-> m] : m \in MatchLists}

\* the element a lookup returns: the candidate it comes from, its place among the
\* matches of that candidate, and whether it is visible
Element(cands, x, nth) == [cand |-> x, nth |-> nth, visible |-> cands[x].matches[nth]]

\* pickFirstExisting: loc.first() of the first candidate that counts a match; a
\* candidate whose count throws is skipped
RECURSIVE pickFirstExisting(_, _)
pickFirstExisting(cands, x) ==
  IF x > Len(cands) THEN None
  ELSE IF ~cands[x].throws /\ cands[x].matches # <<>> THEN Some(Element(cands, x, 1))
  ELSE pickFirstExisting(cands, x + 1)

Min(a, b) == IF a < b THEN a ELSE b

\* firstVisible: the first visible match among the first five of each candidate in
\* turn; None stands for the fallback candidates[0]
RECURSIVE firstVisible(_, _)
firstVisible(candidates, x) ==
  IF x > Len(candidates) THEN None
  ELSE LET seen == {i \in 1..Min(Len(candidates[x].matches), FirstVisibleLimit) :
                      candidates[x].matches[i]}
       IN IF ~candidates[x].throws /\ seen # {}
          THEN Some(Element(candidates, x,
                            CHOOSE i \in seen : \A j \in seen : i <= j))
          ELSE firstVisible(candidates, x + 1)

\* makeIn(p) followed by `loc && count() > 0`, in one document: [threw, hit], hit
\* being None or Some(loc.first()). candidates[1] of a type action is the
\* placeholder locator, which resolveTextToInputLocator counts first
LookIn(a, cands) ==
  CASE a.selectorType \in {"css", "xpath"} ->
         IF cands[1].throws THEN [threw |-> TRUE, hit |-> None]
         ELSE IF cands[1].matches = <<>> THEN [threw |-> FALSE, hit |-> None]
         ELSE [threw |-> FALSE, hit |-> Some(Element(cands, 1, 1))]
    [] a.selectorType = "text" /\ a.blank -> [threw |-> FALSE, hit |-> None]
    [] a.selectorType = "text" /\ a.action = "type" ->
         IF cands[1].throws THEN [threw |-> TRUE, hit |-> None]
         ELSE IF cands[1].matches # <<>>
         THEN [threw |-> FALSE, hit |-> Some(Element(cands, 1, 1))]
         ELSE [threw |-> FALSE, hit |-> firstVisible(cands, 1)]
    [] a.selectorType = "text" ->
         [threw |-> FALSE, hit |-> pickFirstExisting(cands, 1)]
    [] OTHER -> [threw |-> TRUE, hit |-> None]

\* the candidate locators makeIn builds: one for css and xpath, the ranked
\* strategies for text
Documents(a) ==
  [1..(IF a.selectorType = "text" THEN MaxCands ELSE 1) -> CandOutcomes]

\* the actions resolveLocator is called with, and the length of page.frames()
LocatorCalls ==
  [action : {"click", "type", "assertVisible"},
   selectorType : {"none", "css", "xpath", "text"},
   blank : BOOLEAN,
   frames : 1..MaxFrames]

\* a scan that a throwing lookup ends
AfterMissStoppingOnThrow(look, at, frames) ==
  IF look.threw \/ at >= frames THEN "resolved" ELSE "scanFrames"

\* after a lookup without a match: the next frame of page.frames(), or return null
AfterMiss(look, at, frames) == IF at >= frames THEN "resolved" ELSE "scanFrames"

LocatorInit ==
  /\ Parked("resolveLocator")
  /\ gateway = IdleGateway({})
  /\ license = Licensed
  /\ arg \in LocatorCalls
  /\ ret = [at |-> 0, looked |-> <<>>, doc |-> <<>>, result |-> None]

\* if (action.selectorType === "none") return null; then the main document
ResolveInPage ==
  /\ pc = "resolveLocator"
  /\ IF arg.selectorType = "none"
     THEN pc' = "resolved" /\ UNCHANGED ret
     ELSE \E doc \in Documents(arg) :
            LET look == LookIn(arg, doc)
            IN /\ ret' = [at |-> 1,
                          looked |-> Append(ret.looked,
                                            [where |-> 0, threw |-> look.threw,
                                             hit |-> look.hit # None]),
                          doc |-> doc, result |-> look.hit]
               /\ pc' = IF look.hit # None THEN "resolved" ELSE "scanFrames"
  /\ UNCHANGED <<jsonResponse, arg, cookies, gateway, license, locator, pause, command, maxRetries,
                 useCache, options, remainingCommand, retryCount, lastError,
                 preParsedTypeActions, typedByParser, stepLogs, navState, finalActions,
                 actionIndex, navigationTriggered, error, failure, pageUrl, now, cache,
                 htmlContent, llmCalls, rounds, failedRounds, roundStart>>

\* one turn of `for (const f of page.frames())`
ResolveInFrame ==
  /\ pc = "scanFrames"
  /\ \E doc \in Documents(arg) :
       LET look == LookIn(arg, doc)
       IN /\ ret' = [at |-> ret.at + 1,
                     looked |-> Append(ret.looked,
                                       [where |-> ret.at, threw |-> look.threw,
                                        hit |-> look.hit # None]),
                     doc |-> doc, result |-> look.hit]
          /\ pc' = IF look.hit # None THEN "resolved"
                   ELSE AfterMiss(look, ret.at, arg.frames)
  /\ UNCHANGED <<jsonResponse, arg, cookies, gateway, license, locator, pause, command, maxRetries,
                 useCache, options, remainingCommand, retryCount, lastError,
                 preParsedTypeActions, typedByParser, stepLogs, navState, finalActions,
                 actionIndex, navigationTriggered, error, failure, pageUrl, now, cache,
                 htmlContent, llmCalls, rounds, failedRounds, roundStart>>

LocatorNext == ResolveInPage \/ ResolveInFrame

LocatorSpec == LocatorInit /\ [][LocatorNext]_vars

(***************************************************************************)
(* The tokenless counter file shared by the processes of one machine       *)
(***************************************************************************)
MaxProcs == 2
Procs == 1..MaxProcs

\* one run per process, as PilotQA_AI is entered
EnteringRun(token) ==
  [at |-> "enter", token |-> token, usedToday |-> 0, current |-> 0, requested |-> 0]

\* arg: the counter file of today ([count] as readTokenlessCountToday reads it, and
\* the count the day's runs of this model started from); ret: the run of each process
DemoInit ==
  /\ Parked("processes")
  /\ gateway = IdleGateway({})
  /\ license = Licensed
  /\ \E count \in 0..DailyLimit : arg = [count |-> count, started |-> count]
  /\ ret \in [Procs -> {EnteringRun(token) : token \in Tokens}]

\* if (token) tokenValidated = await validateToken(token); a validated token skips
\* the tokenless gate; otherwise usedToday = readTokenlessCountToday()
ReadUsedToday(p) ==
  /\ ret[p].at = "enter"
  /\ ret' = [ret EXCEPT ![p] =
               IF ret[p].token = "valid" THEN [@ EXCEPT !.at = "licensed"]
               ELSE [@ EXCEPT !.usedToday = arg.count,
                              !.at = IF arg.count < DailyLimit THEN "increment"
                                     ELSE "request"]]
  /\ UNCHANGED arg

\* incrementTokenlessCountToday: const current = readTokenlessCountToday()
IncrementReads(p) ==
  /\ ret[p].at = "increment"
  /\ ret' = [ret EXCEPT ![p] = [@ EXCEPT !.current = arg.count, !.at = "write"]]
  /\ UNCHANGED arg

\* incrementTokenlessCountToday: writeFileSync({date, count: current + 1});
\* runningTokenless = true
IncrementWrites(p) ==
  /\ ret[p].at = "write"
  /\ arg' = [arg EXCEPT !.count = ret[p].current + 1]
  /\ ret' = [ret EXCEPT ![p] = [@ EXCEPT !.at = "tokenless"]]

\* the courtesy request: requestToken then validateToken, or the daily-limit error
RequestsToken(p) ==
  /\ ret[p].at = "request"
  /\ \E answer \in {"raises", "invalid", "valid"} :
       ret' = [ret EXCEPT ![p] =
                 [@ EXCEPT !.requested = @ + 1,
                           !.token = IF answer = "raises" THEN @ ELSE answer,
                           !.at = IF answer = "valid" THEN "licensed" ELSE "limitReached"]]
  /\ UNCHANGED arg

DemoStep(p) ==
  /\ pc = "processes"
  /\ \/ ReadUsedToday(p)
     \/ IncrementReads(p)
     \/ IncrementWrites(p)
     \/ RequestsToken(p)
  /\ UNCHANGED pc
  /\ UNCHANGED <<jsonResponse, cookies, gateway, license, locator, pause, command, maxRetries,
                 useCache, options, remainingCommand, retryCount, lastError,
                 preParsedTypeActions, typedByParser, stepLogs, navState, finalActions,
                 actionIndex, navigationTriggered, error, failure, pageUrl, now, cache,
                 htmlContent, llmCalls, rounds, failedRounds, roundStart>>

DemoNext == \E p \in Procs : DemoStep(p)

DemoSpec == DemoInit /\ [][DemoNext]_vars

(***************************************************************************)
(* The extension chains: registration and one action through the chains    *)
(***************************************************************************)
\* the registrations made before the engine runs, over the three chains
MaxRegistered == 4

\* the functions the modules install, in the order of their array literals
DefaultNormalizers == <<"aliases", "selectorType">>
DefaultValidators == <<"selector", "duration", "text">>
DefaultMappers == <<"baseMapper">>

\* functions a caller may register: a normalizer that vetoes the action and one that
\* rewrites it, a validator that throws and one that accepts, a mapper that declines
\* and one that maps
ExtNormalizers == {"veto", "toToggle"}
ExtValidators == {"reject", "accept"}
ExtMappers == {"decline", "custom"}

\* ActionNormalizer: RawLLMAction -> RawLLMAction | null
ApplyNormalizer(n, raw) ==
  CASE n = "aliases" -> Some(NormalizeAlias(raw))
    [] n = "selectorType" -> Some(NormalizeSelectorType(raw))
    [] n = "toToggle" -> Some([raw EXCEPT !.action = "toggle"])
    [] OTHER -> None

\* ActionValidator: [error thrown or "", act as the validator leaves it]
ApplyValidator(v, act) ==
  CASE v = "selector" ->
         [error |-> IF act.action \notin noSelector /\ ~Truthy(act.selector)
                    THEN "Action missing selector" ELSE "", act |-> act]
    [] v = "duration" -> [error |-> "", act |-> ValidateDuration(act)]
    [] v = "text" ->
         [error |-> IF act.action = "type"
                         /\ (~Truthy(act.text) \/ Trim(act.text[1]) = <<>>)
                    THEN "Action type missing text" ELSE "", act |-> act]
    [] v = "reject" -> [error |-> "rejected by a registered validator", act |-> act]
    [] OTHER -> [error |-> "", act |-> act]

\* a chain whose base mapper declines every action
ApplyMapperBaseDeclines(m, raw) ==
  CASE m = "custom" -> Some([baseMapper(raw) EXCEPT !.normalizedAction = "custom"])
    [] OTHER -> None

\* ActionMapper: RawLLMAction -> PilotQAAIAction | null
ApplyMapper(m, raw) ==
  CASE m = "baseMapper" -> Some(baseMapper(raw))
    [] m = "custom" -> Some([baseMapper(raw) EXCEPT !.normalizedAction = "custom"])
    [] OTHER -> None

\* a registration that puts the function at the head of its chain
RegisterFirst(chain, fn) == <<fn>> \o chain

\* register*: chain.push(fn)
Register(chain, fn) == Append(chain, fn)

\* for (const n of actionNormalizers) { if (!cur) break; cur = n(cur); }
RECURSIVE RunNormalizers(_, _, _, _)
RunNormalizers(chain, x, cur, ran) ==
  IF x > Len(chain) \/ cur = None THEN [cur |-> cur, ran |-> ran]
  ELSE LET next == ApplyNormalizer(chain[x], cur[1])
       IN RunNormalizers(chain, x + 1, next, Append(ran, chain[x]))

\* for (const v of actionValidators) v(cur);
RECURSIVE RunValidators(_, _, _, _)
RunValidators(chain, x, cur, ran) ==
  IF x > Len(chain) THEN [cur |-> cur, error |-> "", ran |-> ran]
  ELSE LET out == ApplyValidator(chain[x], cur)
       IN IF out.error # ""
          THEN [cur |-> out.act, error |-> out.error, ran |-> Append(ran, chain[x])]
          ELSE RunValidators(chain, x + 1, out.act, Append(ran, chain[x]))

\* for (const m of actionMappers) { const c = m(cur); if (c) { mapped = c; break; } }
RECURSIVE RunMappers(_, _, _, _)
RunMappers(chain, x, cur, ran) ==
  IF x > Len(chain) THEN [mapped |-> None, ran |-> ran]
  ELSE LET c == ApplyMapper(chain[x], cur)
       IN IF c # None THEN [mapped |-> c, ran |-> Append(ran, chain[x])]
          ELSE RunMappers(chain, x + 1, cur, Append(ran, chain[x]))

\* one turn of `for (const raw of parsedLLMActions)`: the functions that ran in each
\* chain, the action as the validators were given and left it, the error thrown, and
\* what was pushed on finalActions
ThroughChains(chains, raw) ==
  LET n == RunNormalizers(chains.normalizers, 1, Some(raw), <<>>)
  IN IF n.cur = None
     THEN [normalizers |-> n.ran, validators |-> <<>>, mappers |-> <<>>,
           cur |-> None, error |-> "", mapped |-> None]
     ELSE LET v == RunValidators(chains.validators, 1, n.cur[1], <<>>)
          IN IF v.error # ""
             THEN [normalizers |-> n.ran, validators |-> v.ran, mappers |-> <<>>,
                   cur |-> Some(v.cur), error |-> v.error, mapped |-> None]
             ELSE LET m == RunMappers(chains.mappers, 1, v.cur, <<>>)
                  IN [normalizers |-> n.ran, validators |-> v.ran, mappers |-> m.ran,
                      cur |-> Some(v.cur), error |-> "", mapped |-> m.mapped]

\* the parsed actions sent through the chains
ChainInputs ==
  {ActionSchema(Click(<<"Login">>)),
   ActionSchema([RawAction("press") EXCEPT !.selector = Some(<<"Login">>)]),
   ActionSchema(RawAction("wait")),
   ActionSchema(RawAction("click"))}

\* arg: the three chains as the modules export them, the registrations made so far,
\* and the parsed action `raw`
ChainInit ==
  /\ Parked("registering")
  /\ gateway = IdleGateway({})
  /\ license = Licensed
  /\ \E raw \in ChainInputs :
       arg = [normalizers |-> DefaultNormalizers, validators |-> DefaultValidators,
              mappers |-> DefaultMappers, registered |-> <<>>, raw |-> raw]
  /\ ret = None

RegisterActionNormalizer ==
  /\ pc = "registering"
  /\ Len(arg.registered) < MaxRegistered
  /\ \E fn \in ExtNormalizers :
       arg' = [arg EXCEPT !.normalizers = Register(@, fn),
                          !.registered = Append(@, [chain |-> "normalizers", fn |-> fn])]
  /\ UNCHANGED <<pc, ret>>
  /\ UNCHANGED <<jsonResponse, cookies, gateway, license, locator, pause, command, maxRetries,
                 useCache, options, remainingCommand, retryCount, lastError,
                 preParsedTypeActions, typedByParser, stepLogs, navState, finalActions,
                 actionIndex, navigationTriggered, error, failure, pageUrl, now, cache,
                 htmlContent, llmCalls, rounds, failedRounds, roundStart>>

RegisterActionValidator ==
  /\ pc = "registering"
  /\ Len(arg.registered) < MaxRegistered
  /\ \E fn \in ExtValidators :
       arg' = [arg EXCEPT !.validators = Register(@, fn),
                          !.registered = Append(@, [chain |-> "validators", fn |-> fn])]
  /\ UNCHANGED <<pc, ret>>
  /\ UNCHANGED <<jsonResponse, cookies, gateway, license, locator, pause, command, maxRetries,
                 useCache, options, remainingCommand, retryCount, lastError,
                 preParsedTypeActions, typedByParser, stepLogs, navState, finalActions,
                 actionIndex, navigationTriggered, error, failure, pageUrl, now, cache,
                 htmlContent, llmCalls, rounds, failedRounds, roundStart>>

RegisterActionMapper ==
  /\ pc = "registering"
  /\ Len(arg.registered) < MaxRegistered
  /\ \E fn \in ExtMappers :
       arg' = [arg EXCEPT !.mappers = Register(@, fn),
                          !.registered = Append(@, [chain |-> "mappers", fn |-> fn])]
  /\ UNCHANGED <<pc, ret>>
  /\ UNCHANGED <<jsonResponse, cookies, gateway, license, locator, pause, command, maxRetries,
                 useCache, options, remainingCommand, retryCount, lastError,
                 preParsedTypeActions, typedByParser, stepLogs, navState, finalActions,
                 actionIndex, navigationTriggered, error, failure, pageUrl, now, cache,
                 htmlContent, llmCalls, rounds, failedRounds, roundStart>>

\* the engine sends `raw` through the chains as they are now
RunThroughChains ==
  /\ pc = "registering"
  /\ ret' = Some(ThroughChains(arg, arg.raw))
  /\ pc' = "mapped"
  /\ UNCHANGED arg
  /\ UNCHANGED <<jsonResponse, cookies, gateway, license, locator, pause, command, maxRetries,
                 useCache, options, remainingCommand, retryCount, lastError,
                 preParsedTypeActions, typedByParser, stepLogs, navState, finalActions,
                 actionIndex, navigationTriggered, error, failure, pageUrl, now, cache,
                 htmlContent, llmCalls, rounds, failedRounds, roundStart>>

ChainNext ==
  \/ RegisterActionNormalizer
  \/ RegisterActionValidator
  \/ RegisterActionMapper
  \/ RunThroughChains

ChainSpec == ChainInit /\ [][ChainNext]_vars

(***************************************************************************)
(* Two runs of one process calling getOptimizedHTML on the shared cache    *)
(***************************************************************************)
Callers == {1, 2}
Pages == {"page1", "page2"}
Containers == {None, Some("#a"), Some("#b")}

\* the excerpt of what `page` shows at url, inside the container if one is given
SummarizeOf(page, url, containerSelector) ==
  [page |-> page, url |-> url, container |-> containerSelector]

\* getOptimizedHTML(page, containerSelector, useCache) at Date.now() = time:
\* [html, cache, cached]
getOptimizedHTMLOf(call, time, c) ==
  LET urlChanged == c.currentUrl # call.url
  IN IF call.useCache /\ ~urlChanged /\ c.htmlContent # None
          /\ time - c.htmlTimestamp < CACHE_DURATION
     THEN [html |-> c.htmlContent[1], cache |-> c, cached |-> TRUE]
     ELSE LET finalHTML == SummarizeOf(call.page, call.url, call.containerSelector)
          IN [html |-> finalHTML,
              cache |-> IF call.useCache
                        THEN [htmlContent |-> Some(finalHTML), htmlTimestamp |-> time,
                              currentUrl |-> call.url]
                        ELSE c,
              cached |-> FALSE]

\* arg: what each run calls getOptimizedHTML with; ret: the excerpt each run
\* received last
ShareInit ==
  /\ Parked("sharing")
  /\ gateway = IdleGateway({})
  /\ license = Licensed
  /\ arg \in [Callers -> [page : Pages, url : Urls, containerSelector : Containers,
                          useCache : BOOLEAN]]
  /\ ret = [r \in Callers |-> None]

\* one run calls getOptimizedHTML
SharedCall ==
  /\ pc = "sharing"
  /\ \E r \in Callers :
       LET h == getOptimizedHTMLOf(arg[r], now, cache)
       IN /\ ret' = [ret EXCEPT ![r] = Some(h)]
          /\ cache' = h.cache
  /\ UNCHANGED <<jsonResponse, arg, cookies, gateway, license, pause, locator, command,
                 maxRetries, useCache, options, pc, remainingCommand, retryCount,
                 lastError, preParsedTypeActions, typedByParser, stepLogs, navState,
                 finalActions, actionIndex, navigationTriggered, error, failure, pageUrl,
                 now, htmlContent, llmCalls, rounds, failedRounds, roundStart>>

\* Date.now() advances between the calls
SharedTick ==
  /\ pc = "sharing"
  /\ now < StartTime + MaxTicks * TickMs
  /\ now' = now + TickMs
  /\ UNCHANGED <<jsonResponse, arg, ret, cookies, gateway, license, pause, locator,
                 command, maxRetries, useCache, options, pc, remainingCommand,
                 retryCount, lastError, preParsedTypeActions, typedByParser, stepLogs,
                 navState, finalActions, actionIndex, navigationTriggered, error,
                 failure, pageUrl, cache, htmlContent, llmCalls, rounds, failedRounds,
                 roundStart>>

ShareNext == SharedCall \/ SharedTick

ShareSpec == ShareInit /\ [][ShareNext]_vars

(***************************************************************************)
(* The usage file: concurrent calls of logExecution for one user and month *)
(***************************************************************************)
MaxCalls == 2
Calls == 1..MaxCalls
UserIds == {"u1", "u2"}

\* arg: the usage file of this month (data[userId][month] for every user) and the
\* counts it started from; ret: each call of logExecution(userId), with the data it
\* read
UsageInit ==
  /\ Parked("logging")
  /\ gateway = IdleGateway({})
  /\ license = Licensed
  /\ \E data \in [UserIds -> 0..1] : arg = [data |-> data, initial |-> data]
  /\ ret \in [Calls -> {[at |-> "called", userId |-> u, data |-> [v \in UserIds |-> 0]] :
                          u \in UserIds}]

\* const data = await readData()
LogExecutionReads(c) ==
  /\ ret[c].at = "called"
  /\ ret' = [ret EXCEPT ![c] = [@ EXCEPT !.at = "read", !.data = arg.data]]
  /\ UNCHANGED arg

\* data[userId][month] = (data[userId][month] ?? 0) + 1; await writeData(data)
LogExecutionWrites(c) ==
  /\ ret[c].at = "read"
  /\ arg' = [arg EXCEPT !.data = [ret[c].data EXCEPT ![ret[c].userId] = @ + 1]]
  /\ ret' = [ret EXCEPT ![c] = [@ EXCEPT !.at = "done"]]

\* executionsThisMonth(userId): data[userId]?.[month] ?? 0
executionsThisMonth(file, userId) == file.data[userId]

UsageStep(c) ==
  /\ pc = "logging"
  /\ LogExecutionReads(c) \/ LogExecutionWrites(c)
  /\ UNCHANGED pc
  /\ UNCHANGED <<jsonResponse, cookies, gateway, license, locator, pause, command, maxRetries,
                 useCache, options, remainingCommand, retryCount, lastError,
                 preParsedTypeActions, typedByParser, stepLogs, navState, finalActions,
                 actionIndex, navigationTriggered, error, failure, pageUrl, now, cache,
                 htmlContent, llmCalls, rounds, failedRounds, roundStart>>

UsageNext == \E c \in Calls : UsageStep(c)

UsageSpec == UsageInit /\ [][UsageNext]_vars

(***************************************************************************)
(* Properties                                                              *)
(***************************************************************************)
\* no round has completed without an exception: every round started so far ended
\* in the catch block
EveryRoundRaised == rounds = failedRounds
Terminal == {"exited", "returned", "Failed"}
Done == pc = "returned" /\ remainingCommand = <<>>

\* C1: when every round of the main loop raised, the run ends raising
\* "Failed after <maxRetries> attempts: <message of the last error>" after exactly
\* maxRetries rounds.
C1_EveryRoundRaisedFailsAfterMaxRetries ==
  pc \in Terminal /\ rounds >= 1 /\ EveryRoundRaised
    => /\ pc = "Failed"
       /\ rounds = maxRetries
       /\ failure = Some([attempts |-> maxRetries, message |-> lastError])

\* C2: when a round ends in an exception and retries remain, the instruction the
\* loop goes on with is the instruction the failed round started with.
C2_FailedRoundConsumesNothing ==
  [][pc = "catch" /\ pc' = "loop" => remainingCommand' = roundStart]_vars

\* C3: whenever the main loop has been left without raising, the remaining
\* instruction is empty, whatever maxRetries is.
C3_ExitMeansConsumed ==
  pc \in {"exited", "returned"} => remainingCommand = <<>>

\* the number of non-whitespace characters of a string
RECURSIVE NonWsLen(_)
NonWsLen(s) ==
  IF s = <<>> THEN 0
  ELSE (IF Head(s) \in Spaces THEN 0 ELSE Len(Head(s))) + NonWsLen(Tail(s))

\* the remaining instruction a comes before b: fewer non-whitespace characters, or
\* as many and a shorter string
Smaller(a, b) ==
  \/ NonWsLen(a) < NonWsLen(b)
  \/ NonWsLen(a) = NonWsLen(b) /\ StrLen(a) < StrLen(b)

\* C4 as stated: every round that completes without an exception leaves an
\* instruction strictly shorter than the one it started with.
C4_RoundStrictlyShortens ==
  [][pc = "roundEnd" => StrLen(remainingCommand') < StrLen(roundStart)]_vars

\* C4, amended: with maxRetries >= 1 every run eventually reaches Done or Failed,
\* and every round that completes without an exception leaves an instruction with
\* fewer non-whitespace characters than it started with, or as many in a shorter
\* string.
C4_TerminatesByShrinking ==
  /\ <>(maxRetries = 0 \/ Done \/ pc = "Failed")
  /\ [][pc = "roundEnd" => Smaller(remainingCommand', roundStart)]_vars

\* a round that raised nothing was followed by the reset of the retries although it
\* had made the instruction longer
C4_Witness ==
  /\ pc = "loop" /\ maxRetries >= 1 /\ rounds >= 1
  /\ retryCount = 0 /\ failedRounds = 0
  /\ remainingCommand # <<>>
  /\ StrLen(remainingCommand) > StrLen(roundStart)

\* C5 as stated: no mutation of the remaining instruction during the run makes it
\* longer.
C5_LengthNeverGrows ==
  [][pc # "start" => StrLen(remainingCommand') <= StrLen(remainingCommand)]_vars

\* C5, amended: no mutation of the remaining instruction during the run adds a
\* non-whitespace character to it.
C5_NonWhitespaceNeverGrows ==
  [][pc # "start" => NonWsLen(remainingCommand') <= NonWsLen(remainingCommand)]_vars

\* inside a plan, consumeProcessed has left the instruction longer and with fewer
\* non-whitespace characters than the round started with
C5_Witness ==
  /\ pc \in {"exec", "roundEnd"}
  /\ StrLen(remainingCommand) > StrLen(roundStart)
  /\ NonWsLen(remainingCommand) < NonWsLen(roundStart)

\* C6: retryCount is the number of rounds that raised since the last round that did
\* not; at the start of every round 0 <= retryCount < maxRetries; the run fails only
\* with maxRetries failed rounds in a row.
C6_RetryCountCountsConsecutiveFailures ==
  /\ pc \notin {"exited", "returned"} => retryCount = failedRounds
  /\ pc \in {"inline", "pretype", "llm", "exec", "roundEnd"}
       => 0 <= retryCount /\ retryCount < maxRetries
  /\ pc = "Failed" => failedRounds = maxRetries

\* a run that failed after a round without exception had reset the retries
C6_Witness ==
  pc = "Failed" /\ maxRetries = 2 /\ rounds > maxRetries /\ failedRounds = 2

\* the instruction is one literal type phrase the pre-parser extracts, and nothing
\* else
SoleTypePhrase ==
  LET pre == PreParseTypes(normalizeAssertionPhrases(Trim(command)))
  IN /\ Len(pre) = 1
     /\ Trim(RemoveLiteral(normalizeAssertionPhrases(Trim(command)),
                           pre[1].originalSnippet)) = <<>>

\* C7: an instruction that is one pre-extractable type phrase is consumed without
\* any call of the LLM gateway, and the run ends with exactly one step logged,
\* passed.
C7_SoleTypePhraseNeedsNoModel ==
  SoleTypePhrase
    => /\ llmCalls = 0
       /\ pc = "returned"
            => /\ remainingCommand = <<>>
               /\ Len(stepLogs) = 1
               /\ stepLogs[1].status = "passed"

\* the inline recognizer matches the instruction of the round and stripping the
\* phrases leaves nothing
InlineConsumesAll ==
  /\ pc \in {"inline", "pretype", "llm", "exec", "roundEnd", "catch"}
  /\ WaitCommandKind(roundStart) # "none"
  /\ StripInlinePhrases(roundStart) = <<>>

\* C8: a round whose instruction the inline wait/reload/cache-clear recognizer
\* consumes entirely calls no model and does not fail the run.
C8_InlineRoundBypassesModel ==
  [][InlineConsumesAll => llmCalls' = llmCalls /\ pc' # "Failed"]_vars

\* C9: the pipeline outputs no action of a kind that needs a selector with
\* selectorType none, and no type action with an empty or blank text.
C9_PipelineOutputIsExecutable ==
  \A x \in 1..Len(finalActions) :
    /\ finalActions[x].action \notin noSelector => finalActions[x].selectorType # "none"
    /\ finalActions[x].action = "type"
         => Truthy(finalActions[x].text) /\ Trim(finalActions[x].text[1]) # <<>>

\* C10: a call of getOptimizedHTML returns the cached excerpt only when
\* cache.currentUrl is the URL of the page, and what it returns is the excerpt of
\* the page as it is now, also within CACHE_DURATION of the caching.
C10_NoExcerptOfAnotherUrl ==
  [][CallGetOptimizedHTML
       => /\ htmlContent'.cached => useCache /\ cache.currentUrl = pageUrl
          /\ htmlContent'.html = Summarize(pageUrl)]_vars

\* the page left the home URL, no detectNavigationChange saw it, and getOptimizedHTML,
\* called within CACHE_DURATION of the caching of the home page, fetched the new page
C10_Witness ==
  /\ useCache
  /\ pageUrl # HomeUrl
  /\ navState = [currentPageUrl |-> HomeUrl, navigationCount |-> 0]
  /\ now - StartTime < CACHE_DURATION
  /\ htmlContent = [html |-> Summarize(pageUrl), cached |-> FALSE]
  /\ cache.currentUrl = pageUrl /\ cache.htmlContent = Some(Summarize(pageUrl))

\* a reload or clearCache was handled, or detectNavigationChange saw a new URL
Invalidation ==
  \/ CallReloadOrClear
  \/ CallDetectNavigationChange /\ navState'.navigationCount # navState.navigationCount

\* C11: getOptimizedHTML returns the cached excerpt only with caching enabled, an
\* excerpt stored, cache.currentUrl equal to the URL of the page and the excerpt
\* younger than CACHE_DURATION; with caching enabled, a reload, a clearCache and a
\* detected navigation leave no excerpt stored, no excerpt appears but by a call
\* of getOptimizedHTML, and a call that finds none summarizes the page again.
C11_CachedOnlyWhenFreshAndInvalidated ==
  /\ [][CallGetOptimizedHTML /\ htmlContent'.cached
          => /\ useCache
             /\ cache.htmlContent # None
             /\ cache.currentUrl = pageUrl
             /\ now - cache.htmlTimestamp < CACHE_DURATION]_vars
  /\ [][Invalidation /\ useCache => cache'.htmlContent = None]_vars
  /\ [][cache.htmlContent = None /\ cache'.htmlContent # None
          => CallGetOptimizedHTML]_vars
  /\ [][CallGetOptimizedHTML /\ cache.htmlContent = None
          => htmlContent' = [html |-> Summarize(pageUrl), cached |-> FALSE]]_vars

\* the home page was reloaded (or its cache cleared) while its excerpt was fresh,
\* and the next getOptimizedHTML has not been called yet
C11_Witness ==
  /\ useCache
  /\ pageUrl = HomeUrl
  /\ navState.navigationCount = 0
  /\ now - StartTime < CACHE_DURATION
  /\ cache = InvalidatedCache(HomeUrl)

\* the invocations of the call so far that threw
Failures == SelectSeq(gateway.tried, LAMBDA t : t.out # "ok")

\* C12: invokeLLMWithFallback invokes candidates in the order of the list, returns
\* as soon as an invocation succeeds, with the model of that candidate as
\* modelName, raises none of the earlier failures and invokes nothing afterwards.
C12_FirstSuccessInListOrder ==
  /\ \A k \in 1..Len(gateway.tried) :
       /\ k < Len(gateway.tried) =>
            /\ gateway.tried[k].x < gateway.tried[k + 1].x
            /\ gateway.tried[k].out # "ok"
       /\ gateway.tried[k].x \in 1..Len(gateway.models)
       /\ gateway.tried[k].x < gateway.x \/ gateway.pc = "returned"
  /\ \A y \in 1..(gateway.x - 1) :
       y \in gateway.skipped \/ \E k \in 1..Len(gateway.tried) : gateway.tried[k].x = y
  /\ gateway.pc = "returned" <=>
       Len(gateway.tried) > 0 /\ gateway.tried[Len(gateway.tried)].out = "ok"
  /\ gateway.pc = "returned" =>
       /\ gateway.raised = None
       /\ gateway.tried[Len(gateway.tried)].x = gateway.x
       /\ gateway.result =
            Some([modelName |-> gateway.models[gateway.x].model])

\* candidates 1 and 2 threw, candidate 3 succeeded and the call returned its model
C12_Witness ==
  /\ gateway.pc = "returned"
  /\ Len(gateway.models) = Len(ModelList)
  /\ Len(gateway.tried) = 3
  /\ gateway.x = 3
  /\ gateway.result = Some([modelName |-> ModelList[3].model])

\* C13: invokeLLMWithFallback raises exactly when the loop has gone through every
\* candidate without one successful invocation (or there was none); the error
\* carries the message of the last invocation that threw; a candidate skipped for
\* want of a key is not invoked and leaves the last error as it was.
C13_RaisesOnlyWhenExhausted ==
  /\ gateway.pc = "raised" <=>
       /\ gateway.pc \notin {"idle", "loop"}
       /\ \A k \in 1..Len(gateway.tried) : gateway.tried[k].out # "ok"
  /\ gateway.pc = "raised" =>
       /\ gateway.result = None
       /\ \A y \in 1..Len(gateway.models) :
            y \in gateway.skipped \/ \E k \in 1..Len(Failures) : Failures[k].x = y
       /\ gateway.raised =
            Some([lastError |-> IF Failures = <<>> THEN None
                                ELSE Some(Failures[Len(Failures)].out)])
  /\ \A k \in 1..Len(gateway.tried) : gateway.tried[k].x \notin gateway.skipped
  /\ gateway.pc = "loop" =>
       gateway.lastError = IF Failures = <<>> THEN None
                           ELSE Some(Failures[Len(Failures)].out)

\* the call raised the error of the first candidate after the second one, whose
\* key had gone, was skipped
C13_Witness ==
  /\ gateway.pc = "raised"
  /\ Len(gateway.models) = 2
  /\ gateway.skipped = {2}
  /\ gateway.tried = <<[x |-> 1, out |-> "timeout"]>>
  /\ gateway.raised = Some([lastError |-> Some("timeout")])

\* the action the for loop is at
Dispatching == finalActions[actionIndex]

\* the for loop goes on after the action: to the next action, or to the end of the
\* round after the last one
GoesOn ==
  /\ error' = ""
  /\ IF actionIndex = Len(finalActions)
     THEN pc' = "roundEnd"
     ELSE pc' = "exec" /\ actionIndex' = actionIndex + 1

ElementKinds ==
  {"waitForVisible", "waitForHidden", "type", "click", "toggle", "assertVisible",
   "assertNotVisible"}

\* C15: when resolveLocator returned no element, the dispatch of an assertNotVisible
\* raises nothing, while the dispatch of a waitForVisible, waitForHidden, type,
\* click, toggle or assertVisible without softAssertNoLocator raises.
C15_MissingElementPassesAssertNotVisible ==
  [][pc = "exec" /\ locator' = "null" /\ Dispatching.action \in ElementKinds
       => IF Dispatching.action = "assertNotVisible"
          THEN error' = ""
          ELSE (Dispatching.action = "assertVisible" /\ options.softAssertNoLocator)
                 \/ error' # ""]_vars

\* C16: every action the switch dispatches without raising appends exactly one
\* entry to the step log, whatever its kind; the log is append-only, and the order
\* fields of its entries are 1..n in the order of the log.
C16_EveryDispatchLogsOneStep ==
  [][/\ pc = "exec" /\ pc' # "catch"
          => /\ Len(stepLogs') = Len(stepLogs) + 1
             /\ stepLogs'[Len(stepLogs')].action = Dispatching.action
     /\ Len(stepLogs') >= Len(stepLogs)
     /\ \A i \in 1..Len(stepLogs) : stepLogs'[i] = stepLogs[i]
     /\ \A i \in 1..Len(stepLogs') : stepLogs'[i].order = i]_vars

\* the run has planned or executed nothing: no round was started, the model was
\* not called, nothing was logged, no failure was counted
NothingDone ==
  /\ rounds = 0
  /\ llmCalls = 0
  /\ stepLogs = <<>>
  /\ retryCount = 0
  /\ finalActions = <<>>

\* C17 as stated: a missing token, an invalid token, the daily trial limit reached
\* or the monthly limit reached aborts the run with an error before the loop plans
\* or executes anything, and nothing follows the abort.
C17_CredentialOrQuotaFailureAborts ==
  /\ [][pc = "gate" /\ (license.token \in {"missing", "invalid"}
                           \/ (license.usedToday >= DailyLimit /\ license.token # "valid"))
           => pc' = "Aborted" /\ failure' # None]_vars
  /\ [][pc = "quota" /\ license'.quota = "read" /\ license'.limit # None
                     /\ license'.usage >= license'.limit[1]
           => pc' = "Aborted" /\ failure' # None]_vars
  /\ [](pc = "Aborted" => NothingDone)
  /\ [][pc = "Aborted" => pc' = "Aborted"]_vars

\* C17, amended: the gate aborts the run exactly when the run has no valid token,
\* the free runs of the day are used up and the token service gave no valid token,
\* or when the run has a token and executionsThisMonth raises or answers with a
\* usage that has reached a limited plan; a missing or invalid token with free runs
\* left today goes on tokenless, without the monthly check.  An aborted run has
\* planned and executed nothing, and nothing follows the abort.
C17_QuotaFailureAbortsBeforeLoop ==
  /\ [][pc = "gate"
           => /\ pc' = "Aborted"
                   <=> /\ license.token # "valid"
                       /\ license.usedToday >= DailyLimit
                       /\ license'.token # "valid"
              /\ pc' # "Aborted" => pc' = "quota" /\ NothingDone'
              /\ license'.runningTokenless
                   <=> license.token # "valid" /\ license.usedToday < DailyLimit]_vars
  /\ [][pc = "quota"
           => /\ pc' = "Aborted"
                   <=> /\ ~license.runningTokenless
                       /\ \/ license'.quota = "raised"
                          \/ /\ license'.limit # None
                             /\ license'.usage >= license'.limit[1]
              /\ pc' # "Aborted" => pc' = "start" /\ NothingDone'
              /\ license.runningTokenless => license' = license]_vars
  /\ [](pc = "Aborted" => NothingDone /\ failure # None)
  /\ [][pc = "Aborted" => pc' = "Aborted"]_vars
  /\ [][pc' \in {"gate", "quota"} => pc \in {"gate", "quota"} /\ pc' # pc]_vars

\* the run was aborted at the monthly check with the usage exactly at the limit of
\* the plan
C17_Witness ==
  /\ pc = "Aborted"
  /\ license.quota = "read"
  /\ license.limit # None
  /\ license.usage = license.limit[1]
  /\ NothingDone

\* the largest duration, in seconds, of the waits the validator is tried on
MaxDuration == 3

\* the wait actions that may reach the validator chain
RawWaits ==
  {[RawAction("wait") EXCEPT !.duration = d] :
     d \in {None} \cup {Some(n) : n \in (0 - MaxDuration)..MaxDuration}}

AtLeastOne(n) == IF n < 1 THEN 1 ELSE n

\* C18: the validator leaves a wait whose duration is absent or <= 0 with duration 1
\* and keeps a positive duration, so every wait of the plan to execute has a
\* duration of at least 1, and dispatching a wait pauses for max(1, duration)
\* seconds, at least 1000 ms, without raising.
C18_WaitPausesAtLeastOneSecond ==
  /\ [](\A raw \in RawWaits :
         ValidateDuration(raw).duration
           = Some(IF raw.duration = None THEN 1 ELSE AtLeastOne(raw.duration[1])))
  /\ [](\A i \in 1..Len(finalActions) :
         finalActions[i].action = "wait"
           => finalActions[i].duration # None /\ finalActions[i].duration[1] >= 1)
  /\ [][pc = "exec" /\ Dispatching.action = "wait"
           => /\ pc' # "catch"
              /\ pause' = AtLeastOne(Dispatching.duration[1]) * 1000
              /\ pause' >= 1000]_vars

\* the model answered with a wait that has no duration, and the wait was dispatched
\* as a pause of 1000 ms
C18_Witness ==
  /\ pc = "roundEnd"
  /\ Len(finalActions) = 1
  /\ finalActions[1].action = "wait"
  /\ finalActions[1].duration = Some(1)
  /\ pause = 1000

\* the instruction and the plan of the end-to-end scenario
Instruction19 ==
  <<"click", SP, "Login", SP, "then", SP, "wait", SP, "2", SP, "seconds">>
Plan19 ==
  [kind |-> "array",
   actions |-> <<Click(<<"Login">>), [RawAction("wait") EXCEPT !.duration = Some(2)]>>]

\* the loop is executing what the pipeline made of the plan
Executing19 ==
  /\ command = Instruction19
  /\ pc = "exec"
  /\ finalActions = Pipeline(Plan19, typedByParser).actions

\* C19: for the instruction "click Login then wait 2 seconds" and the plan
\* [click Login, wait 2], the pipeline yields exactly the click on Login and the
\* wait of 2, in that order; once the click has succeeded without a navigation the
\* wait is dispatched and pauses for 2000 ms; the round then leaves the loop with
\* nothing left of the instruction, and the run returns.
C19_ClickThenWaitEndsDone ==
  /\ [](command = Instruction19
          => LET out == Pipeline(Plan19, typedByParser)
             IN /\ out.error = ""
                /\ Len(out.actions) = 2
                /\ out.actions[1].action = "click"
                /\ out.actions[1].selector = Some(<<"Login">>)
                /\ out.actions[2].action = "wait"
                /\ out.actions[2].duration = Some(2))
  /\ [][Executing19 /\ actionIndex = 1 /\ pc' # "catch" /\ ~navigationTriggered'
           => /\ pc' = "exec" /\ actionIndex' = 2
              /\ stepLogs' = Append(stepLogs, [order |-> Len(stepLogs) + 1,
                                               action |-> "click",
                                               selector |-> Some(<<"Login">>),
                                               status |-> "passed"])]_vars
  /\ [][Executing19 /\ actionIndex = 2
           => /\ pause' = 2000
              /\ pc' = "roundEnd"
              /\ remainingCommand' = <<>>
              /\ error' = ""]_vars
  /\ [][command = Instruction19 /\ pc = "roundEnd" /\ actionIndex = 2
          /\ finalActions = Pipeline(Plan19, typedByParser).actions
           => pc' = "exited" /\ remainingCommand' = <<>>]_vars
  /\ [][command = Instruction19 /\ pc = "exited" /\ rounds >= 1 => Done']_vars

\* the click and the wait of the scenario were dispatched in the first round, which
\* is about to leave the loop
C19_Witness ==
  /\ command = Instruction19
  /\ pc = "roundEnd"
  /\ rounds = 1
  /\ llmCalls = 1
  /\ finalActions = Pipeline(Plan19, typedByParser).actions
  /\ actionIndex = 2
  /\ pause = 2000
  /\ Len(stepLogs) = 1
  /\ remainingCommand = <<>>

\* C20: stripVague is idempotent: applied to its own result it changes nothing,
\* also for the instructions that end with several vague phrases in any order.
C20_StripVagueIdempotent ==
  [][pc = "stripped" => remainingCommand' = remainingCommand]_vars

StartsWith(s, prefix) ==
  Len(s) >= Len(prefix) /\ SubSeq(s, 1, Len(prefix)) = prefix

\* the kind the selector of an action without selectorType stands for
InferredKind(selector) ==
  LET s == IF selector = None THEN <<>> ELSE selector[1]
  IN IF s = <<>> THEN "none"
     ELSE IF StartsWith(s, <<"xpath", "=">>) \/ StartsWith(s, <<"/", "/">>) THEN "xpath"
     ELSE IF s[1] \in {".", "#", "[", ":"} THEN "css"
     ELSE "text"

\* C21: for an action without selectorType the inference always answers, with the
\* action unchanged but for its selectorType: none for an absent or empty selector,
\* xpath for one that starts with xpath= or //, css for one that starts with ".",
\* "#", "[" or ":", text for any other.
C21_SelectorKindInference ==
  [][pc = "coerce" /\ arg.selectorType = None
       => ret' = Some([arg EXCEPT !.selectorType = Some(InferredKind(arg.selector))])]_vars

\* the inference was applied to the selector "//Login" without a selectorType
C21_Witness ==
  /\ pc = "coerced"
  /\ arg.selectorType = None
  /\ arg.selector = Some(<<"/", "/">>)
  /\ ret[1].selectorType = Some("xpath")

\* the phrasings that say the element is not to be seen
Negative(ws) ==
  (\E i \in 1..Len(ws) : ws[i] = "not") \/ ws = <<"hidden">>

Rewritten(p) ==
  CASE p \in {<<"should", "be", "visible">>, <<"must", "be", "visible">>,
              <<"should", "be", "displayed">>} -> <<"are", SP, "visible">>
    [] p \in {<<"should", "not", "be", "visible">>, <<"must", "not", "be", "visible">>,
              <<"should", "not", "be", "displayed">>}
         -> <<"are", SP, "not", SP, "visible">>
    [] p = <<"is", "visible">> -> <<"is", SP, "visible">>
    [] p = <<"is", "not", "visible">> -> <<"is", SP, "not", SP, "visible">>
    [] p \in {<<"displayed">>, <<"appearing">>} -> <<"visible">>
    [] p = <<"hidden">> -> <<"not", SP, "visible">>

C23_NavigationAbandonsPlan ==
  [][pc = "exec" /\ pc' # "catch" /\ pageUrl' # navState.currentPageUrl
       => /\ navigationTriggered'
          /\ pc' = "roundEnd"
          /\ navState'.currentPageUrl = pageUrl']_vars

\* the plan does not pass the gates: the answer is not a JSON array, an element
\* fails the schema, or a validator raises for an action the filters kept
Rejected(response, typed) ==
  \/ response.kind # "array"
  \/ \E x \in 1..Len(response.actions) : ~SchemaAccepts(response.actions[x])
  \/ LET kept == FilterParsed(ParsedActions(response), typed)
     IN \E x \in 1..Len(kept) : ValidatorError(Normalize(kept[x])) # ""

\* C24: when the answer of the model is not a JSON array, or one element of it
\* fails the schema, or a validator raises for one of its actions, the round goes
\* to the catch block with no action of the plan dispatched: nothing to execute,
\* nothing logged, the page, the cookies and the instruction as they were; the for
\* loop only ever executes a plan that passed every gate.
C24_PlanGatingIsAllOrNothing ==
  /\ [][pc = "llm" /\ jsonResponse' # None
          /\ Rejected(jsonResponse'[1], typedByParser)
           => /\ pc' = "catch"
              /\ error' # ""
              /\ finalActions' = <<>>
              /\ UNCHANGED <<stepLogs, pageUrl, cookies, cache, remainingCommand,
                             navState, locator, pause>>]_vars
  /\ [](pc = "exec"
          => jsonResponse # None /\ ~Rejected(jsonResponse[1], typedByParser))

\* a plan whose first action is a valid click and whose second action has a
\* duration of 0 was rejected as a whole
C24_Witness ==
  /\ pc = "catch"
  /\ jsonResponse # None
  /\ Len(jsonResponse[1].actions) = 2
  /\ jsonResponse[1].actions[1] = Click(<<"Login">>)
  /\ jsonResponse[1].actions[2].duration = Some(0)
  /\ finalActions = <<>>
  /\ stepLogs = <<>>

\* a type into the field `key` was executed and logged as passed
Filled(key) ==
  \E i \in 1..Len(stepLogs) :
    /\ stepLogs[i].action = "type"
    /\ stepLogs[i].status = "passed"
    /\ stepLogs[i].selector # None
    /\ LowerAll(stepLogs[i].selector[1]) = key

\* C25: the duplicate filter drops a type action of the plan only for a field whose
\* pre-extracted type action has been executed successfully before.
C25_DroppedTypeWasFilled ==
  [][pc = "llm" /\ jsonResponse' # None /\ ParseOk(jsonResponse'[1])
       => LET parsed == ParsedActions(jsonResponse'[1])
          IN \A x \in 1..Len(parsed) :
               IsParserDuplicate(parsed[x], typedByParser)
                 => Filled(LowerAll(parsed[x].selector[1]))]_vars

\* the model response of the round passed the schema and every validator, and the
\* filters and chains left nothing to execute
EmptyAfterFiltering(response, typed) ==
  /\ ParseOk(response)
  /\ LET out == RunChains(FilterParsed(ParsedActions(response), typed), 1)
     IN out.error = "" /\ out.actions = <<>>

NoActionsParsed == "No actions parsed from LLM response."

\* C26: a plan whose executable list is empty after the filters and chains fails the
\* round with "No actions parsed from LLM response." and no action is dispatched;
\* the catch block counts that failure like any other: retryCount goes up by one and
\* the run fails when the retries are used up, else loops
C26_EmptyPlanFailsAndCounts ==
  /\ [][pc = "llm" /\ jsonResponse' # None
          /\ EmptyAfterFiltering(jsonResponse'[1], typedByParser)
          => pc' = "catch" /\ error' = NoActionsParsed /\ stepLogs' = stepLogs]_vars
  /\ [][pc = "catch"
          => /\ retryCount' = retryCount + 1
             /\ lastError' = error
             /\ pc' = IF retryCount + 1 >= maxRetries THEN "Failed" ELSE "loop"]_vars

C26_Witness ==
  /\ lastError = NoActionsParsed
  /\ retryCount = 2
  /\ pc = "Failed"
  /\ jsonResponse = None

\* the runs of fn that failed, in the frame of withRetries
FailedRuns == {x \in 1..Len(ret.runs) : ~ret.runs[x].ok}

\* C27: withRetries(fn, k) runs fn at most k + 1 times; it returns the result of the
\* first run that succeeds and runs fn no more; after k + 1 failed runs it throws
\* the error of the last run; after the failure of the run with loop index i
\* (counted from 0) it waits baseDelayMs * (i + 1). type, waitForVisible and
\* waitForHidden pass k = 1, click and toggle pass k = 2, and each run of a click is
\* a normal click followed, only if it failed, by a forced click
C27_WithRetriesContract ==
  /\ pc \in {"withRetries", "retryDelay", "retryReturned", "retryThrown"}
       => /\ Len(ret.runs) <= arg.attempts + 1
          /\ \A x \in 1..Len(ret.runs) :
               /\ ret.runs[x].ok => x = Len(ret.runs) /\ pc = "retryReturned"
               /\ arg.site \in {"click", "toggle"}
                    => ret.runs[x].ops \in {<<"click">>, <<"click", "click force">>}
               /\ ~ret.runs[x].ok /\ arg.site \in {"click", "toggle"}
                    => ret.runs[x].ops = <<"click", "click force">>
          /\ pc = "retryReturned"
               => /\ ret.runs[Len(ret.runs)].ok
                  /\ ret.result = Some(ret.runs[Len(ret.runs)].out)
                  /\ ret.thrown = None
          /\ pc = "retryThrown"
               => /\ Len(ret.runs) = arg.attempts + 1
                  /\ FailedRuns = 1..Len(ret.runs)
                  /\ ret.thrown = Some(ret.runs[Len(ret.runs)].out)
                  /\ ret.result = None
          /\ pc # "retryDelay" => Len(ret.delays) = Cardinality(FailedRuns)
          /\ \A x \in 1..Len(ret.delays) : ret.delays[x] = arg.baseDelayMs * x
          /\ arg.site \in {"preParsedType", "type", "waitForVisible", "waitForHidden"}
               => arg.attempts = 1
          /\ arg.site \in {"click", "toggle"} => arg.attempts = 2

\* a click that failed twice, waited 500 then 1000 ms, and passed at the third run
\* by the forced click
C27_Witness ==
  /\ pc = "retryReturned"
  /\ arg.site = "click"
  /\ Len(ret.runs) = 3
  /\ ret.runs[3].ops = <<"click", "click force">>
  /\ ret.delays = <<500, 1000>>

\* a cache-clear of the run: the inline phrase of the instruction, or a clearCache
\* action of the plan
InlineCacheClear == pc = "inline" /\ WaitCommandKind(remainingCommand) = "cache"
ClearCacheAction == pc = "exec" /\ finalActions[actionIndex].action = "clearCache"

\* C28: with safeClearCookies set no step of the run clears the cookies of the
\* context, whether the cache is cleared by a clearCache action or by an inline
\* cache-clear phrase; without the flag a cache-clear clears them
C28_SafeClearCookiesKeepsCookies ==
  /\ [][options.safeClearCookies => cookies' = cookies]_vars
  /\ [][~options.safeClearCookies /\ (InlineCacheClear \/ ClearCacheAction)
          => ~cookies']_vars

\* C29: resolveLocator returns null without looking anywhere when selectorType is
\* none; otherwise it looks in the main document first and then, only while nothing
\* has matched, in the frames in page.frames() order; it returns the match of the
\* first place that has one, and null only when the page and every frame were
\* looked in without a match; a lookup that throws counts as no match and the scan
\* goes on
C29_ResolveLocatorScanOrder ==
  pc \in {"scanFrames", "resolved"}
    => /\ arg.selectorType = "none" => ret.result = None /\ ret.looked = <<>>
       /\ \A x \in 1..Len(ret.looked) :
            /\ ret.looked[x].where = x - 1
            /\ x < Len(ret.looked) => ~ret.looked[x].hit
            /\ ret.looked[x].threw => ~ret.looked[x].hit
       /\ pc = "resolved" /\ arg.selectorType # "none"
            => /\ ret.result # None <=> ret.looked[Len(ret.looked)].hit
               /\ ret.result = None => Len(ret.looked) = arg.frames + 1

\* the second frame answers after the main document matched nothing and the lookup
\* in the first frame threw
C29_Witness ==
  /\ pc = "resolved"
  /\ arg.frames = 3
  /\ Len(ret.looked) = 3
  /\ ~ret.looked[1].threw
  /\ ret.looked[2].threw
  /\ ret.result # None

\* the highest-ranked candidate of a document with a visible match among its first
\* five matches
VisibleWithinLimit(c) ==
  ~c.throws /\ \E i \in 1..Min(Len(c.matches), FirstVisibleLimit) : c.matches[i]

\* C30: for a text selector on an action other than type, the element resolveLocator
\* returns is visible, and it comes from the highest-ranked strategy that has a
\* visible match among its first five matches
C30_TextLocatorIsVisible ==
  pc = "resolved" /\ arg.selectorType = "text" /\ arg.action # "type"
     /\ ret.result # None
    => /\ ret.result[1].visible
       /\ VisibleWithinLimit(ret.doc[ret.result[1].cand])
       /\ \A x \in 1..(ret.result[1].cand - 1) : ~VisibleWithinLimit(ret.doc[x])

\* C31: at every resolveLocator call (the head of a turn of the for loop over
\* finalActions) navState.currentPageUrl is the URL of the page; and once navState
\* is constructed a step changes it only by counting one navigation and taking the
\* URL of the page
C31_ResolverSeesCurrentUrl ==
  /\ [](pc = "exec" => navState.currentPageUrl = pageUrl)
  /\ [][pc # "start" /\ navState' # navState
          => /\ navState'.navigationCount = navState.navigationCount + 1
             /\ navState'.currentPageUrl = pageUrl']_vars

\* the runs of the processes that went on in tokenless (demo) mode
TokenlessRuns == {p \in Procs : ret[p].at = "tokenless"}

\* C32: within one day at most DailyLimit runs proceed tokenless, the runs counted in
\* the file before included, also when the runs are started in several processes
\* that share the counter file; a run without a valid token goes on tokenless only
\* after reading a count below the limit, and a run that read the limit made one
\* token request and raised the daily-limit error unless the token validated
C32_AtMostFiveTokenlessRuns ==
  /\ arg.started + Cardinality(TokenlessRuns) <= DailyLimit
  /\ \A p \in Procs :
       /\ ret[p].at \in {"increment", "write", "tokenless"}
            => ret[p].usedToday < DailyLimit
       /\ ret[p].at \in {"licensed", "limitReached"} /\ ret[p].requested > 0
            => /\ ret[p].requested = 1
               /\ ret[p].usedToday = DailyLimit
               /\ ret[p].at = "licensed" <=> ret[p].token = "valid"

\* C33: logExecution(token) is called once for every run that ends normally with a
\* validated token, after the loop; it is never called for a tokenless run, nor for
\* a run that ends in Failed or that the gate aborted
C33_UsageRecordedOnce ==
  /\ license.logged <= 1
  /\ license.logged = 1
       => pc = "returned" /\ license.token = "valid" /\ ~license.runningTokenless
  /\ pc = "returned" /\ license.token = "valid" /\ ~license.runningTokenless
       => license.logged = 1
  /\ license.runningTokenless => license.logged = 0
  /\ pc \in {"Failed", "Aborted"} => license.logged = 0

\* a run that obtained its token from the token service, ran a round and recorded
\* its execution
C33_Witness ==
  /\ pc = "returned"
  /\ license.requested
  /\ license.logged = 1
  /\ rounds >= 1

\* the functions registered on one chain, in registration order
RECURSIVE RegisteredOn(_, _, _)
RegisteredOn(registered, chain, x) ==
  IF x > Len(registered) THEN <<>>
  ELSE (IF registered[x].chain = chain THEN <<registered[x].fn>> ELSE <<>>)
         \o RegisteredOn(registered, chain, x + 1)

IsPrefix(s, t) == Len(s) <= Len(t) /\ s = SubSeq(t, 1, Len(s))

\* C34: every chain is its defaults followed by the registered functions in
\* registration order, and the functions run in that order: the normalizers up to
\* the first that returns null, the validators up to the first that throws, the
\* mappers up to the first that returns a non-null result, which is the executable
\* action; an action that no mapper accepts is dropped without an error
C34_ExtensionsRunAfterDefaults ==
  pc \in {"registering", "mapped"}
    => /\ arg.normalizers = DefaultNormalizers \o RegisteredOn(arg.registered, "normalizers", 1)
       /\ arg.validators = DefaultValidators \o RegisteredOn(arg.registered, "validators", 1)
       /\ arg.mappers = DefaultMappers \o RegisteredOn(arg.registered, "mappers", 1)
       /\ pc = "mapped"
            => LET out == ret[1]
               IN /\ IsPrefix(out.normalizers, arg.normalizers)
                  /\ IsPrefix(out.validators, arg.validators)
                  /\ IsPrefix(out.mappers, arg.mappers)
                  /\ out.normalizers # arg.normalizers
                       => ApplyNormalizer(out.normalizers[Len(out.normalizers)],
                                          arg.raw) = None
                  /\ out.cur # None /\ out.error = ""
                       => /\ out.validators = arg.validators
                          /\ \A x \in 1..Len(out.mappers) :
                               ApplyMapper(out.mappers[x], out.cur[1]) # None
                                 <=> x = Len(out.mappers) /\ out.mapped # None
                          /\ out.mapped # None
                               => out.mapped
                                    = ApplyMapper(out.mappers[Len(out.mappers)], out.cur[1])
                          /\ out.mapped = None => out.mappers = arg.mappers
                  /\ out.error # "" => out.mapped = None /\ out.mappers = <<>>

\* a registered normalizer ran after the two defaults and a registered validator
\* after the three defaults, and the action was mapped
C34_Witness ==
  /\ pc = "mapped"
  /\ ret[1].normalizers = <<"aliases", "selectorType", "toToggle">>
  /\ ret[1].validators = <<"selector", "duration", "text", "accept">>
  /\ Len(arg.mappers) = 3
  /\ ret[1].mapped # None
  /\ ret[1].mapped[1].action = "toggle"

\* C40: with the base mapper first in its chain, every action that passes the
\* validators is mapped by the base mapper, with normalizedAction equal to its
\* action; the mapper chain drops no action and no registered mapper is ever
\* asked
C40_BaseMapperAlwaysWins ==
  pc = "mapped" /\ ret[1].cur # None /\ ret[1].error = ""
    => /\ arg.mappers[1] = "baseMapper"
       /\ ret[1].mappers = <<"baseMapper">>
       /\ ret[1].mapped = Some(baseMapper(ret[1].cur[1]))
       /\ ret[1].mapped[1].normalizedAction = ret[1].mapped[1].action

\* two mappers are registered, the second of which would map the action, and the
\* base mapper mapped it
C40_Witness ==
  /\ pc = "mapped"
  /\ arg.mappers = <<"baseMapper", "decline", "custom">>
  /\ ret[1].mapped # None
  /\ ret[1].mapped[1].normalizedAction = "click"

\* C35: with useCache = false, getOptimizedHTML, detectNavigationChange and the cache
\* handling of the inline phrases and of the reload/clearCache actions leave every
\* field of the cache as it is, whatever the cache holds, and getOptimizedHTML
\* always summarizes the page anew
C35_CacheUntouchedWithoutUseCache ==
  /\ [][~useCache /\ ~CallClearCache => cache' = cache]_vars
  /\ [][~useCache /\ CallGetOptimizedHTML
          => htmlContent' = [html |-> Summarize(pageUrl), cached |-> FALSE]]_vars

\* the page left the cached URL, the detector and getOptimizedHTML ran, and the
\* cache still holds the excerpt it started with
C35_Witness ==
  /\ ~useCache
  /\ pc = "page"
  /\ cache = CachedHome
  /\ pageUrl # HomeUrl
  /\ navState.currentPageUrl = pageUrl
  /\ htmlContent.html = Summarize(pageUrl)

\* the leftmost place of the instruction where one of the patterns matches
RECURSIVE FirstMatch(_, _, _)
FirstMatch(ps, cmd, x) ==
  IF x > Len(ps) THEN Len(cmd) + 2
  ELSE LET m == Exec(ps[x], cmd, 1)
           rest == FirstMatch(ps, cmd, x + 1)
       IN IF m.found /\ m.start < rest THEN m.start ELSE rest

\* C36: a wait phrase that the round strips from the instruction has been performed
\* as a pause of the stated seconds in that round, also when the instruction holds
\* another inline phrase (a reload or a cache-clear) besides it
C36_StrippedPhraseWasPerformed ==
  [][pc = "inline" /\ AnyTest(timeP, remainingCommand)
       /\ ~AnyTest(timeP, remainingCommand')
       => pause' = WaitCommandSeconds(remainingCommand) * 1000]_vars

\* the place of the phrase tryExecuteWaitCommand executes
ExecutedPhraseStart(cmd) ==
  CASE WaitCommandKind(cmd) = "cache" -> FirstMatch(cacheP, cmd, 1)
    [] WaitCommandKind(cmd) = "reload" -> FirstMatch(reloadP, cmd, 1)
    [] OTHER -> FirstMatch(timeP, cmd, 1)

\* C37: an inline wait, reload or cache-clear phrase is executed only when no clause
\* of the remaining instruction precedes it, that is when the actions of every
\* clause before it have been dispatched and consumed; and the run pauses once for
\* a wait the instruction asks for once
C37_InlinePhraseInInstructionOrder ==
  [][pc = "inline" /\ WaitCommandKind(remainingCommand) # "none"
       => ExecutedPhraseStart(remainingCommand) = 1]_vars

\* C38: the excerpt a call of getOptimizedHTML returns was computed from the page and
\* the containerSelector of that call, also when it comes from the cache another
\* run of the process filled for the same URL less than CACHE_DURATION ago
C38_ExcerptIsOfThisPageAndContainer ==
  pc = "sharing"
    => \A r \in Callers :
         ret[r] # None
           => /\ ret[r][1].html.page = arg[r].page
              /\ ret[r][1].html.container = arg[r].containerSelector

\* C39: once every one of the concurrent calls of logExecution has written the
\* file, executionsThisMonth(userId) returns the initial count of the user plus the
\* number of calls made for that user
C39_NoLostUpdate ==
  pc = "logging" /\ (\A c \in Calls : ret[c].at = "done")
    => \A u \in UserIds :
         executionsThisMonth(arg, u)
           = arg.initial[u] + Cardinality({c \in Calls : ret[c].userId = u})
====
